---- MODULE Spec2Model ----
(***************************************************************************)
(* Wallet custody and transaction dispatch of KATZ-AI-Agent/skin.          *)
(*                                                                         *)
(*   QueueSpec    services/queue/TransactionQueue.js (one p-queue per      *)
(*                network, pending map, events); GasSpec, SerialSpec,      *)
(*                OrderSpec and PauseSpec are the same queue under         *)
(*                narrower workloads; RefreshSpec and SnapshotSpec add     *)
(*                the gas-price refresh and getQueueStatus; ReuseSpec      *)
(*                has callers that repeat transaction ids                  *)
(*   TradeSpec    services/trading/TradeService.js over the queue          *)
(*   CipherSpec   utils/encryption.js (encrypt / decrypt over CryptoJS.AES)*)
(*   WalletSpec   services/wallet/index.js (createWallet / getWallet, the  *)
(*                users collection and the decrypted-wallet cache)         *)
(*   CustodySpec  the same service: deleteWallet and the autonomy flag;    *)
(*                StoreSpec adds createWallet, CacheSpec the clock and     *)
(*                the cache sweep, StartupSpec initialize() with a         *)
(*                database that may not connect                            *)
(*   HealthSpec   the same service: initialize() and checkHealth()         *)
(*   BreakerSpec  the circuit-breaker registry of the design document      *)
(*   SolanaSpec   services/wallet/wallets/solana.js (initialize, RPC       *)
(*                endpoint probe, WebSocket, heartbeat, health checks,     *)
(*                cleanup); ProvisionSpec is the provider's createWallet   *)
(*                                                                         *)
(* JavaScript values: a missing string field is "", a missing numeric id   *)
(* is 0 (both falsy, as undefined is), an optional number is a set with    *)
(* no or one element, null is the string NullV.  Messages are sequences    *)
(* of fragments so that template strings can be built by concatenation.    *)
(***************************************************************************)
EXTENDS Integers, Sequences, FiniteSets, TLC

\* ------------------------------------------------------------------ bounds
MaxTx == 3          \* addTransaction calls in one run
MaxCipherOps == 3   \* encrypt / decrypt experiments in one run
MaxBreakerCalls == 5  \* executeWithBreaker calls in one run
MaxProbes == 3      \* runs of the Solana RPC failover probe in one run
MaxGasTicks == 2    \* ticks of the gas-price refresh interval in one run
MaxInitCalls == 3   \* initialize() calls on the Solana provider in one run
MaxSockets == 2     \* setupWebSocket() calls of initialize() in one run
MaxClock == 3       \* ticks of the wall clock in one run
MaxSwaps == 2       \* swaps in one executeMultipleSwaps call
CacheTtl == 1       \* the lifetime of a cache entry, in ticks of the wall clock

\* --------------------------------------------------------------- constants
Concurrency == 1    \* PQueue({concurrency: 1, ...})
IntervalCap == 1    \* PQueue({..., intervalCap: 1})

NullV == "null"

VARIABLES
  \* TransactionQueue
  calls,                \* the tx argument of every addTransaction call so far
  pendingTransactions,  \* this.pendingTransactions: id -> record
  queue,                \* per network: the waiting elements of the PQueue, by call number
  running,              \* per network: tasks (call numbers) started and not yet settled
  paused,               \* per network: PQueue paused flag
  intervalCount,        \* per network: tasks started in the current interval
  promise,              \* per call: the promise addTransaction returned
  events,               \* every (transactionComplete | transactionFailed, id) emitted
  submitted,            \* ids handed to walletService.executeTrade
  balanceRead,          \* per call: the balance processTransaction read, if it got one
  gasPrices,            \* this.gasPrices: per network the last snapshot
  gasAt,                \* updateGasPrices: index of the network being refreshed, 0 = not running
  gasTicks,             \* ticks of the refresh interval so far; the clock of the snapshots
  gasCalls,             \* provider.getGasPrice calls so far
  gasAnswers,           \* per network: what its provider answered last, and in which tick
  gasOutcome,           \* how the last tick went: none | running | done | threw
  queueStatus,          \* what the last getQueueStatus returned
  queueCleaned,         \* cleanup() has been called
  \* Cipher
  encKey,               \* ENCRYPTION_KEY, read once when the module loads ("" = absent)
  plainIn,              \* the plaintext handed to encrypt
  cipherText,           \* the ciphertext at hand: encrypt's result or a foreign one
  encOut,               \* how encrypt ended
  decOut,               \* how decrypt ended
  cipherPc,             \* idle | encrypted | roundtrip | foreign
  cipherOps,            \* experiments so far
  \* WalletService
  isInitialized,        \* this.isInitialized (and this.usersCollection set)
  userDocs,             \* users with a document in the users collection
  usersDb,              \* the wallet records of the users collection
  walletCache,          \* this.walletCache: key -> {data, timestamp}
  walletEvents,         \* every walletCreated / walletDeleted / metricsUpdated emitted
  walletCount,          \* walletMetrics: per network walletCount
  lastCall,             \* the last WalletService call and how it ended
  autonomyCall,         \* the setAutonomousWallet call waiting for its update, if any
  autonomyGranted,      \* every (user, address) a setAutonomousWallet call returned true for
  walletProviders,      \* the networks of this.walletProviders
  initOutcomes,         \* per network: how provider.initialize() went under initialize()
  initLog,              \* the per-provider lines initialize() logged
  providerState,        \* per network: new | initialized | failed | pending
  initReturn,           \* this.initializationPromise: none | pending | true | throw
  initRuns,             \* runs of the body of initialize() so far
  healthAnswers,        \* per network: how provider.checkHealth() went in the last checkHealth()
  healthProbed,         \* the providers the last checkHealth() called, in order
  healthReport,         \* what the last checkHealth() returned
  metricsDown,          \* the walletMetrics collection rejects writes
  walletClock,          \* Date.now(), counted in cache lifetimes
  lastSweep,            \* when the cache sweep ran last (-1 = not yet)
  \* CircuitBreaker registry
  breakers,             \* per name: state, consecutive failures, cooldown elapsed or not
  breakerCalls,         \* every executeWithBreaker call so far: name, status, trial or not
  \* SolanaWallet
  rpcEndpoint,          \* this.state.rpcEndpoint ("" = null)
  solInitialized,       \* this.state.initialized
  healthChecks,         \* the health-check interval is running
  sockets,              \* per socket chain: connecting | open | closing | backoff | dead
  webSocket,            \* this.webSocket: the chain whose socket opened last (0 = null)
  wsReady,              \* this.state.wsReady
  pingTimer,            \* the timer of heartbeat(): none | armed | fired | cleared
  lastBeat,             \* what the last heartbeat tick did: none | ping | skip
  initTask,             \* the initialize task running in this.queue: idle | probe | socket
  initWaiting,          \* initialize tasks waiting in this.queue
  initCalls,            \* initialize() calls so far
  initStarts,           \* initialize tasks that went past the initialized check
  healthStarts,         \* startHealthChecks() calls so far
  solCleaned,           \* cleanup() has been called
  solCreate,            \* how the last createWallet() of the provider ended
  hostProcess,          \* the process the provider lives in: running | exited
  probeAt,              \* setupRpcConnection: index of the endpoint being tried, 0 = not running
  probeTrigger,         \* what started the last probe: none | init | health
  probeTried,           \* the endpoints the last probe tried, in order, each with its answer
  probeResult,          \* none | running | selected | allFailed
  probeRuns,            \* probes started so far
  rpcUsed,              \* the endpoint the last RPC call went to ("none" before any call)
  \* TradeService
  tradeScope,           \* whether quickNodeService and transactionQueue resolve in TradeService.js
  directInFlight,       \* the swaps of a bundle whose sendSmartTransaction has not settled
  tradeResult           \* how the last TradeService step ended

gasVars    == <<gasPrices, gasAt, gasTicks, gasCalls, gasAnswers, gasOutcome, queueStatus>>
queueVars  == <<calls, pendingTransactions, queue, running, paused,
                intervalCount, promise, events, submitted, balanceRead, gasVars, queueCleaned>>
cipherVars == <<encKey, plainIn, cipherText, encOut, decOut, cipherPc, cipherOps>>
walletVars == <<isInitialized, userDocs, usersDb, walletCache, walletEvents, walletCount,
                lastCall, autonomyCall, autonomyGranted, walletProviders, initOutcomes,
                initLog, providerState, initReturn, initRuns, healthAnswers, healthProbed,
                healthReport,
                metricsDown, walletClock, lastSweep>>
initVars == <<isInitialized, walletProviders, initOutcomes, initLog, providerState, initReturn,
              initRuns>>
probeVars == <<healthAnswers, healthProbed, healthReport>>
breakerVars == <<breakers, breakerCalls>>
solanaVars == <<rpcEndpoint, solInitialized, healthChecks, sockets, webSocket, wsReady, pingTimer,
                lastBeat, initTask, initWaiting, initCalls, initStarts, healthStarts, solCleaned,
                solCreate, hostProcess, probeAt, probeTrigger, probeTried, probeResult, probeRuns,
                rpcUsed>>
tradeVars == <<tradeScope, directInFlight, tradeResult>>
infraVars == <<breakerVars, solanaVars, tradeVars>>
vars == <<queueVars, gasVars, queueCleaned, cipherVars, walletVars, infraVars>>

\* ===================================================== TransactionQueue ==

\* _initQueues: the networks a PQueue is registered for
Networks == {"ethereum", "base", "solana"}

\* names every plain object inherits from Object.prototype
ObjectPrototypeKeys == {"constructor"}

\* this.queues[network]: this.queues is a plain object literal
QueuesLookup(network) ==
  IF network \in Networks THEN "PQueue"
  ELSE IF network \in ObjectPrototypeKeys THEN "inherited"
  ELSE "undefined"

\* the tx arguments addTransaction is called with; ids are caller-supplied,
\* id k is the one a careful caller gives its k-th call, 0 / "" stand for a
\* missing field;
\* the calls come from two users in turn.  cost is the estimate the caller
\* computed for the trade (TradeService carries it inside tx.transaction),
\* estimatedGas the field processTransaction reads, which TradeService
\* never sets.
Tx(id, type, network, userId, priority, estimatedGas) ==
  [id |-> id, type |-> type, network |-> network, userId |-> userId,
   priority |-> priority, estimatedGas |-> estimatedGas, cost |-> 1]

ValidTx(k, nets, prios, ests) ==
  {Tx(k, "buy", n, 1 + (k % 2), p, g) : n \in nets, p \in prios, g \in ests}

InvalidTx(k) ==
  { Tx(0, "buy", "ethereum", 1, {}, {}),
    Tx(k, "",    "ethereum", 1, {}, {}),
    Tx(k, "buy", "",         1, {}, {}),
    Tx(k, "buy", "ethereum", 0, {}, {}),
    Tx(k, "buy", "polygon",  1, {}, {}),
    Tx(k, "buy", "constructor", 1, {}, {}) }

\* QueueSpec: transactions as TradeService.executeTrade builds them (no
\* estimatedGas), of any priority, and the malformed ones
TxInputs(k) == ValidTx(k, {"ethereum", "solana"}, {{}, {-1}, {1}}, {{}}) \cup InvalidTx(k)

\* SerialSpec: trades of default priority on two networks
SerialTxInputs(k) == ValidTx(k, {"ethereum", "solana"}, {{}}, {{}})

\* OrderSpec: trades of every priority on one network
OrderTxInputs(k) == ValidTx(k, {"solana"}, {{}, {-1}, {1}}, {{}})

\* GasSpec: high-priority trades with and without the estimatedGas field
PauseTxInputs(k) == ValidTx(k, {"ethereum", "solana"}, {{}, {1}}, {{}})

GasTxInputs(k) == ValidTx(k, {"ethereum", "solana"}, {{2}}, {{}, {1}})

NoRecord == [status |-> "absent", result |-> NullV, error |-> <<NullV>>]

\* a network without an entry in this.gasPrices; no getQueueStatus call yet
NoSnapshot == [price |-> "absent", timestamp |-> 0]
NoStatus == [network |-> "", pending |-> 0, size |-> 0, gasPrice |-> ""]

\* validateTransaction: "" when tx passes, else the message thrown
MsgInvalidFormat == <<"Invalid transaction format">>
MsgUnsupported(network) == <<"Unsupported network: ", network>>
MsgNotAFunction == <<"this.queues[tx.network].add is not a function">>

validateTransaction(tx) ==
  IF tx.id = 0 \/ tx.type = "" \/ tx.network = "" \/ tx.userId = 0
    THEN MsgInvalidFormat
  ELSE IF QueuesLookup(tx.network) = "undefined"
    THEN MsgUnsupported(tx.network)
  ELSE <<>>

\* mutant: the priority option is not passed on
PriorityOf_Dropped(tx) == 0

\* { priority: tx.priority || 0 }
PriorityOf(tx) == IF tx.priority = {} THEN 0 ELSE CHOOSE p \in tx.priority : TRUE

\* PriorityQueue.enqueue of p-queue: behind every element of priority >= the new one
Enqueue(q, e) ==
  LET k == Cardinality({i \in 1..Len(q) : q[i].priority >= e.priority})
  IN SubSeq(q, 1, k) \o <<e>> \o SubSeq(q, k + 1, Len(q))

\* mutant: a queue built with concurrency 2
DoesConcurrentAllowAnother_Two(r) == Cardinality(r) < Concurrency + 1

\* PQueue._doesConcurrentAllowAnother
DoesConcurrentAllowAnother(r) == Cardinality(r) < Concurrency

\* PQueue._doesIntervalAllowAnother
DoesIntervalAllowAnother(ic) == ic < IntervalCap

\* starts a waiting task although the queue is paused
TryToStartAnother_IgnoresPause(s, p) ==
  IF Len(s.q) > 0 /\ DoesIntervalAllowAnother(s.ic) /\ DoesConcurrentAllowAnother(s.r)
    THEN [q |-> Tail(s.q), r |-> s.r \cup {Head(s.q).id}, ic |-> s.ic + 1]
    ELSE s

\* PQueue._tryToStartAnother on one network's queue state [q, r, ic] with
\* pause flag p: dequeue the head and run it when nothing forbids it
TryToStartAnother(s, p) ==
  IF Len(s.q) > 0 /\ ~p /\ DoesIntervalAllowAnother(s.ic) /\ DoesConcurrentAllowAnother(s.r)
    THEN [q |-> Tail(s.q), r |-> s.r \cup {Head(s.q).id}, ic |-> s.ic + 1]
    ELSE s

QState(n) == [q |-> queue[n], r |-> running[n], ic |-> intervalCount[n]]

SetQState(n, s) ==
  /\ queue' = [queue EXCEPT ![n] = s.q]
  /\ running' = [running EXCEPT ![n] = s.r]
  /\ intervalCount' = [intervalCount EXCEPT ![n] = s.ic]

\* stores the result and the error and leaves the status as it was
UpdateTransactionStatus_KeepsStatus(pt, id, status, result, error) ==
  IF id \in DOMAIN pt /\ pt[id].status # "absent"
    THEN [pt EXCEPT ![id] = [status |-> @.status, result |-> result, error |-> error]]
    ELSE pt

\* _updateTransactionStatus: only an existing record is rewritten
UpdateTransactionStatus(pt, id, status, result, error) ==
  IF id \in DOMAIN pt /\ pt[id].status # "absent"
    THEN [pt EXCEPT ![id] = [status |-> status, result |-> result, error |-> error]]
    ELSE pt

\* mutant: the catch block rethrows without touching the record
CatchFailed_NoUpdate(pt, id, msg) == pt

\* the catch block of addTransaction
CatchFailed(pt, id, msg) == UpdateTransactionStatus(pt, id, "failed", NullV, msg)

\* balance < tx.estimatedGas: a comparison with undefined is false
BalanceBelowEstimate(balance, tx) ==
  IF tx.estimatedGas = {} THEN FALSE
  ELSE balance < (CHOOSE g \in tx.estimatedGas : TRUE)

MsgInsufficient == <<"Insufficient balance for gas">>
WrapProcessing(msg) == <<"Transaction processing failed: ">> \o msg

\* processTransaction(tx) given what its awaits answer: wallet / bal / trade
\* are [ok, ...] records of walletService.getActiveWallet, getBalance and
\* executeTrade (neither getActiveWallet nor executeTrade is defined by the
\* WalletService of services/wallet/index.js: the call then throws a
\* TypeError, which is the ok = FALSE answer)
processTransaction(tx, wallet, bal, trade) ==
  IF ~wallet.ok THEN [ok |-> FALSE, handed |-> FALSE, error |-> WrapProcessing(wallet.error), result |-> NullV]
  ELSE IF ~bal.ok THEN [ok |-> FALSE, handed |-> FALSE, error |-> WrapProcessing(bal.error), result |-> NullV]
  ELSE IF BalanceBelowEstimate(bal.value, tx)
    THEN [ok |-> FALSE, handed |-> FALSE, error |-> WrapProcessing(MsgInsufficient), result |-> NullV]
  ELSE IF ~trade.ok THEN [ok |-> FALSE, handed |-> TRUE, error |-> WrapProcessing(trade.error), result |-> NullV]
  ELSE [ok |-> TRUE, handed |-> TRUE, error |-> <<NullV>>, result |-> "receipt"]

\* what the collaborators may answer to one processTransaction: an await
\* behind a failed one is never reached, so its answer is left at a default
AnswerOk == [ok |-> TRUE, value |-> 0, error |-> <<>>]
AnswerFail(msg) == [ok |-> FALSE, value |-> 0, error |-> msg]
AnswersOver(balances) ==
  {<<AnswerFail(<<"walletService.getActiveWallet is not a function">>), AnswerOk, AnswerOk>>,
   <<AnswerOk, AnswerFail(<<"Wallet not found">>), AnswerOk>>}
  \cup {<<AnswerOk, [AnswerOk EXCEPT !.value = b], t>> :
          b \in balances, t \in {AnswerOk, AnswerFail(<<>>)}}
ProcAnswers == AnswersOver({0})
GasAnswers == AnswersOver({0, 2})
\* the trade goes through, or the wallet lookup throws
PauseAnswers == {a \in ProcAnswers : a[2].ok /\ a[3].ok}

QueueInit ==
  /\ calls = <<>>
  /\ pendingTransactions = [i \in 1..MaxTx |-> NoRecord]
  /\ queue = [n \in Networks |-> <<>>]
  /\ running = [n \in Networks |-> {}]
  /\ paused = [n \in Networks |-> FALSE]
  /\ intervalCount = [n \in Networks |-> 0]
  /\ promise = [i \in 1..MaxTx |-> "none"]
  /\ events = {}
  /\ submitted = {}
  /\ balanceRead = [i \in 1..MaxTx |-> {}]
  /\ gasPrices = [n \in Networks |-> NoSnapshot]
  /\ gasAt = 0
  /\ gasTicks = 0
  /\ gasCalls = 0
  /\ gasAnswers = [n \in Networks |-> [answer |-> "none", tick |-> 0]]
  /\ gasOutcome = "none"
  /\ queueStatus = NoStatus
  /\ queueCleaned = FALSE

\* addTransaction(tx) up to its await: validation, the pending record, the
\* enqueue and PQueue.add's own attempt to start a task; a throw before the
\* await runs the catch block at once
AddTransaction(tx) ==
  LET k == Len(calls) + 1
      invalid == validateTransaction(tx)
  IN
  /\ calls' = Append(calls, tx)
  /\ IF invalid # <<>>
       THEN /\ pendingTransactions' = CatchFailed(pendingTransactions, tx.id, invalid)
            /\ events' = events \cup {<<"transactionFailed", tx.id>>}
            /\ promise' = [promise EXCEPT ![k] = "rejected"]
            /\ UNCHANGED <<queue, running, intervalCount>>
     ELSE IF QueuesLookup(tx.network) # "PQueue"
       THEN \* the record is set, then .add of an inherited property throws
            /\ pendingTransactions' =
                 CatchFailed([pendingTransactions EXCEPT ![tx.id] =
                                [status |-> "pending", result |-> NullV, error |-> <<NullV>>]],
                             tx.id, MsgNotAFunction)
            /\ events' = events \cup {<<"transactionFailed", tx.id>>}
            /\ promise' = [promise EXCEPT ![k] = "rejected"]
            /\ UNCHANGED <<queue, running, intervalCount>>
     ELSE /\ pendingTransactions' = [pendingTransactions EXCEPT ![tx.id] =
                                [status |-> "pending", result |-> NullV, error |-> <<NullV>>]]
          /\ promise' = [promise EXCEPT ![k] = "unsettled"]
          /\ LET n == tx.network
                 s == QState(n)
                 e == [id |-> k, priority |-> PriorityOf(tx)]
             IN SetQState(n, TryToStartAnother([s EXCEPT !.q = Enqueue(s.q, e)], paused[n]))
          /\ UNCHANGED events
  /\ UNCHANGED <<paused, submitted, balanceRead, gasVars, queueCleaned, cipherVars, walletVars, infraVars>>

\* the running task of network n, the one of call id, settles:
\* processTransaction returns or throws, PQueue._next starts the next task,
\* and addTransaction resumes after its await (all in one turn of the
\* microtask queue)
TaskSettle(n, id, wallet, bal, trade) ==
  LET tx == calls[id]
      out == processTransaction(tx, wallet, bal, trade)
      s == QState(n)
  IN
  /\ id \in running[n]
  /\ SetQState(n, TryToStartAnother([s EXCEPT !.r = s.r \ {id}], paused[n]))
  /\ submitted' = IF out.handed THEN submitted \cup {id} ELSE submitted
  /\ balanceRead' = [balanceRead EXCEPT ![id] = IF wallet.ok /\ bal.ok THEN {bal.value} ELSE {}]
  /\ IF out.ok
       THEN /\ pendingTransactions' =
                 UpdateTransactionStatus(pendingTransactions, tx.id, "complete", out.result, <<NullV>>)
            /\ events' = events \cup {<<"transactionComplete", tx.id>>}
            /\ promise' = [promise EXCEPT ![id] = "resolved"]
       ELSE /\ pendingTransactions' = CatchFailed(pendingTransactions, tx.id, out.error)
            /\ events' = events \cup {<<"transactionFailed", tx.id>>}
            /\ promise' = [promise EXCEPT ![id] = "rejected"]
  /\ UNCHANGED <<calls, paused, gasVars, queueCleaned, cipherVars, walletVars, infraVars>>

\* the PQueue interval timer of network n fires: the count is reset and the
\* queue is processed
IntervalTick(n) ==
  /\ intervalCount[n] > 0
  /\ SetQState(n, TryToStartAnother([QState(n) EXCEPT !.ic = 0], paused[n]))
  /\ UNCHANGED <<calls, pendingTransactions, paused, promise, events, submitted, balanceRead,
               gasVars, queueCleaned, cipherVars, walletVars, infraVars>>

\* pauseNetwork(network)
PauseNetwork(n) ==
  /\ ~paused[n]
  /\ paused' = [paused EXCEPT ![n] = TRUE]
  /\ UNCHANGED <<calls, pendingTransactions, queue, running, intervalCount, promise, events,
               submitted, balanceRead, gasVars, queueCleaned, cipherVars, walletVars, infraVars>>

\* resumeNetwork(network): PQueue.start processes the queue
ResumeNetwork(n) ==
  /\ paused[n]
  /\ paused' = [paused EXCEPT ![n] = FALSE]
  /\ SetQState(n, TryToStartAnother(QState(n), FALSE))
  /\ UNCHANGED <<calls, pendingTransactions, promise, events, submitted, balanceRead,
               gasVars, queueCleaned, cipherVars, walletVars, infraVars>>

\* cleanup(): every queue cleared, the pending map and the gas prices
\* cleared.  Nothing keeps the handle of the refresh interval, so nothing
\* stops it, and a tick under way goes on.
Cleanup ==
  /\ queue' = [n \in Networks |-> <<>>]
  /\ pendingTransactions' = [i \in 1..MaxTx |-> NoRecord]
  /\ gasPrices' = [n \in Networks |-> NoSnapshot]
  /\ queueCleaned' = TRUE
  /\ UNCHANGED <<calls, running, paused, intervalCount, promise, events, submitted, balanceRead,
               gasAt, gasTicks, gasCalls, gasAnswers, gasOutcome, queueStatus, cipherVars, walletVars, infraVars>>

\* how provider.getGasPrice() can go: a live price, the provider's own
\* fallback price, or a throw.  SolanaWallet.getGasPrice catches whatever
\* goes wrong and never throws.
GasPriceAnswers(network) ==
  IF network = "solana" THEN {"live", "default"} ELSE {"live", "default", "throw"}

\* the networks in the order of Object.keys(this.queues)
GasOrder == <<"ethereum", "base", "solana">>

\* without the try / catch around each provider: the first throw ends the tick
GasTurn_NoCatch(prices, at, answer, now) ==
  IF answer = "throw"
    THEN [prices |-> prices, at |-> 0, outcome |-> "threw"]
    ELSE [prices |-> [prices EXCEPT ![GasOrder[at]] = [price |-> answer, timestamp |-> now]],
          at |-> IF at = Len(GasOrder) THEN 0 ELSE at + 1,
          outcome |-> IF at = Len(GasOrder) THEN "done" ELSE "running"]

\* one turn of the loop of updateGasPrices, for the network at index at
\* whose provider answered answer, at time now
GasTurn(prices, at, answer, now) ==
  [prices |-> [prices EXCEPT ![GasOrder[at]] =
                 [price |-> IF answer = "throw" THEN "unavailable" ELSE answer, timestamp |-> now]],
   at |-> IF at = Len(GasOrder) THEN 0 ELSE at + 1,
   outcome |-> IF at = Len(GasOrder) THEN "done" ELSE "running"]

\* the refresh interval fires: updateGasPrices() runs up to its first await
UpdateGasPrices ==
  /\ gasAt = 0 /\ gasTicks < MaxGasTicks
  /\ gasTicks' = gasTicks + 1
  /\ gasAt' = 1
  /\ gasCalls' = gasCalls + 1
  /\ gasOutcome' = "running"
  /\ UNCHANGED <<calls, pendingTransactions, queue, running, paused, intervalCount, promise, events,
                 submitted, balanceRead, gasPrices, gasAnswers, queueStatus, queueCleaned,
                 cipherVars, walletVars, infraVars>>

\* the getGasPrice call of the tick settles: the snapshot is written and
\* the next provider is called
GasPriceSettles(answer) ==
  LET t == GasTurn(gasPrices, gasAt, answer, gasTicks) IN
  /\ gasAt > 0 /\ answer \in GasPriceAnswers(GasOrder[gasAt])
  /\ gasPrices' = t.prices
  /\ gasAt' = t.at
  /\ gasOutcome' = t.outcome
  /\ gasCalls' = IF t.at > 0 THEN gasCalls + 1 ELSE gasCalls
  /\ gasAnswers' = [gasAnswers EXCEPT ![GasOrder[gasAt]] = [answer |-> answer, tick |-> gasTicks]]
  /\ UNCHANGED <<calls, pendingTransactions, queue, running, paused, intervalCount, promise, events,
                 submitted, balanceRead, gasTicks, queueStatus, queueCleaned,
                 cipherVars, walletVars, infraVars>>

\* this.gasPrices.get(network)?.price || 'unavailable'
StatusGasPrice(prices, network) ==
  IF prices[network].price = "absent" THEN "unavailable" ELSE prices[network].price

\* getQueueStatus(network)
GetQueueStatus(n) ==
  /\ queueStatus' = [network |-> n, pending |-> Cardinality(running[n]), size |-> Len(queue[n]),
                     gasPrice |-> StatusGasPrice(gasPrices, n)]
  /\ UNCHANGED <<calls, pendingTransactions, queue, running, paused, intervalCount, promise, events,
                 submitted, balanceRead, gasPrices, gasAt, gasTicks, gasCalls, gasAnswers,
                 gasOutcome, queueCleaned, cipherVars, walletVars, infraVars>>

QueueNext ==
  \/ /\ Len(calls) < MaxTx
     /\ \E tx \in TxInputs(Len(calls) + 1) : AddTransaction(tx)
  \/ \E n \in Networks : \E id \in running[n] :
       \E a \in ProcAnswers : TaskSettle(n, id, a[1], a[2], a[3])
  \/ \E n \in Networks : IntervalTick(n)
  \/ \E n \in {"ethereum", "solana"} : PauseNetwork(n)
  \/ \E n \in {"ethereum", "solana"} : ResumeNetwork(n)
  \/ Cleanup

\* ================================================================ Cipher ==
\* A ciphertext string: the OpenSSL-format output of CryptoJS.AES.encrypt
\* (kind "aes": made under key with a random salt from plain), any other
\* non-empty string (kind "garbage"), the empty string or null.
Ct(kind, key, salt, plain) == [kind |-> kind, key |-> key, salt |-> salt, plain |-> plain]
Aes(key, salt, plain) == Ct("aes", key, salt, plain)
GarbageCt == Ct("garbage", "", 0, "")
EmptyCt == Ct("empty", "", 0, "")
NullCt == Ct("null", "", 0, "")

MsgNoKey == <<"Encryption key not configured">>
MsgDecrypt == <<"Failed to decrypt data">>

Returned(v) == [tag |-> "return", val |-> v, err |-> <<>>]
Thrown(msg) == [tag |-> "throw", val |-> NullV, err |-> msg]
ReturnedCt(c) == [tag |-> "return", val |-> c, err |-> <<>>]
ThrownCt(msg) == [tag |-> "throw", val |-> NullCt, err |-> msg]

\* what bytes.toString(CryptoJS.enc.Utf8) gives for bytes that are not a
\* plaintext of this module
GarbageText == "\\garbage"

\* looks at the input before it looks at the key
encrypt_NullFirst(key, text, salt) ==
  IF text = NullV \/ text = "" THEN ReturnedCt(NullCt)
  ELSE IF key = "" THEN ThrownCt(MsgNoKey)
  ELSE ReturnedCt(Aes(key, salt, text))

\* encrypt(text) with ENCRYPTION_KEY = key; salt is the random salt
\* CryptoJS draws
encrypt(key, text, salt) ==
  IF key = "" THEN ThrownCt(MsgNoKey)
  ELSE IF text = NullV \/ text = "" THEN ReturnedCt(NullCt)     \* !text
  ELSE ReturnedCt(Aes(key, salt, text))

\* CryptoJS.AES.decrypt(ciphertext, key).toString(CryptoJS.enc.Utf8): the
\* plaintext for a ciphertext made under key.  Anything else decrypts to
\* arbitrary bytes: the padding strip leaves nothing (the empty string) or
\* some bytes, and these are valid UTF-8 (a string comes back) or not
\* (Malformed UTF-8 data is thrown)
AesDecryptUtf8(c, key) ==
  IF c.kind = "aes" /\ c.key = key THEN {Returned(c.plain)}
  ELSE {Returned(""), Returned(GarbageText), Thrown(<<"Malformed UTF-8 data">>)}

\* decrypt(ciphertext) with ENCRYPTION_KEY = key: the set of ways it can end
decrypt(key, c) ==
  IF key = "" THEN {Thrown(MsgNoKey)}
  ELSE IF c.kind \in {"null", "empty"} THEN {Returned(NullV)}   \* !ciphertext
  ELSE {IF r.tag = "throw" THEN Thrown(MsgDecrypt) ELSE r : r \in AesDecryptUtf8(c, key)}

Plaintexts == {NullV, "", "a", "bc", "pk-1"}
Salts == {1, 2}
\* ciphertexts encrypt did not produce under the current key
ForeignCiphertexts == {GarbageCt, Aes("k0", 1, "a"), Aes("k0", 2, "pk-1"), EmptyCt, NullCt}

CipherInit ==
  /\ encKey \in {"k1", ""}
  /\ plainIn = NullV
  /\ cipherText = NullCt
  /\ encOut = ReturnedCt(NullCt)
  /\ decOut = Returned(NullV)
  /\ cipherPc = "idle"
  /\ cipherOps = 0

\* y = encrypt(x)
Encrypt(x, salt) ==
  /\ cipherPc = "idle" /\ cipherOps < MaxCipherOps
  /\ plainIn' = x
  /\ encOut' = encrypt(encKey, x, salt)
  /\ cipherText' = encOut'.val
  /\ cipherPc' = "encrypted"
  /\ cipherOps' = cipherOps + 1
  /\ UNCHANGED <<encKey, decOut, queueVars, walletVars, infraVars>>

\* decrypt(y) of the y encrypt returned
DecryptOwn ==
  /\ cipherPc = "encrypted" /\ encOut.tag = "return"
  /\ decOut' \in decrypt(encKey, cipherText)
  /\ cipherPc' = "roundtrip"
  /\ UNCHANGED <<encKey, plainIn, cipherText, encOut, cipherOps, queueVars, walletVars, infraVars>>

\* decrypt(c) of a value encrypt did not return under this key
DecryptForeign(c) ==
  /\ cipherPc = "idle" /\ cipherOps < MaxCipherOps
  /\ cipherText' = c
  /\ decOut' \in decrypt(encKey, c)
  /\ cipherPc' = "foreign"
  /\ cipherOps' = cipherOps + 1
  /\ UNCHANGED <<encKey, plainIn, encOut, queueVars, walletVars, infraVars>>

\* the next experiment
CipherReset ==
  /\ cipherPc # "idle"
  /\ cipherPc' = "idle"
  /\ UNCHANGED <<encKey, plainIn, cipherText, encOut, decOut, cipherOps, queueVars, walletVars, infraVars>>

CipherNext ==
  \/ \E x \in Plaintexts, salt \in Salts : Encrypt(x, salt)
  \/ DecryptOwn
  \/ \E c \in ForeignCiphertexts : DecryptForeign(c)
  \/ CipherReset

\* ========================================================= WalletService ==
Users == {1, 2}
Addresses == {"A1", "A2", "A3", "A4"}

\* this.walletProviders after initialize(): one provider per network
WalletProviders == Networks

\* getProvider is declared async: whatever it does, the caller gets a
\* promise of it
getProvider(network) ==
  [kind |-> "promise",
   state |-> IF network \in WalletProviders THEN "fulfilled" ELSE "rejected"]

\* provider.createWallet is a function only on a provider object
HasCreateWallet(provider) == provider.kind = "provider"

WalletRec(u, n, a, pk, mn) ==
  [user |-> u, network |-> n, address |-> a, encryptedPrivateKey |-> pk,
   encryptedMnemonic |-> mn, isAutonomous |-> FALSE]

\* The users collection outlives the process.  What earlier runs may have
\* left: a wallet written under the current key, one written under a
\* previous key, one whose key field is corrupt, one without mnemonic.
PriorRecords ==
  { WalletRec(1, "ethereum", "A1", Aes("k1", 1, "pk-1"), Aes("k1", 2, "mn-1")),
    WalletRec(1, "solana",   "A2", Aes("k0", 1, "pk-2"), Aes("k0", 1, "mn-2")),
    WalletRec(2, "ethereum", "A3", GarbageCt, NullCt),
    WalletRec(2, "base",     "A4", Aes("k1", 1, "pk-4"), NullCt) }

NoWallet == [address |-> "", privateKey |-> NullV, mnemonic |-> NullV, network |-> ""]
Wallet(a, pk, mn, n) == [address |-> a, privateKey |-> pk, mnemonic |-> mn, network |-> n]

\* the cache key getWallet looks up and the one cacheWallet writes
CacheKeyGet(u, a) == <<u, ":", a>>
CacheKeySet(u, a) == <<u, "-", a>>

\* Date.now() - cached.timestamp < this.CACHE_DURATION: CACHE_DURATION is
\* never assigned, and no number is below undefined
CacheFresh(entry) == FALSE

\* cacheWallet(userId, address, walletData)
cacheWallet(cache, u, a, data) ==
  {e \in cache : e.key # CacheKeySet(u, a)}
    \cup {[key |-> CacheKeySet(u, a), data |-> data, timestamp |-> walletClock]}

MsgNotInitialized == <<"WalletService is not initialized. Call initialize() before use.">>
MsgNoCreateWallet == <<"provider.createWallet is not a function">>
MsgUserNotFound == <<"User not found">>
MsgUnsupportedNetwork(network) == <<"Unsupported network: ", network>>
MsgDecryptWallet == <<"Failed to decrypt wallet data">>
MsgMetricsWrite == <<"walletMetrics update failed">>

CallResult(tag, found, wallet, err) == [tag |-> tag, found |-> found, wallet |-> wallet, err |-> err]

\* the networks of user.wallets in the order Object.entries walks them
NetworkOrder == <<"ethereum", "base", "solana">>

\* the record getWallet's loop stops at: the first network, in order, that
\* holds the address
MatchOf(db, u, a) ==
  LET hits == {i \in 1..Len(NetworkOrder) :
                 \E r \in db : r.user = u /\ r.address = a /\ r.network = NetworkOrder[i]}
      first == CHOOSE i \in hits : \A j \in hits : i <= j
  IN CHOOSE r \in db : r.user = u /\ r.address = a /\ r.network = NetworkOrder[first]

HasMatch(db, u, a) == \E r \in db : r.user = u /\ r.address = a

\* getWallet(userId, address) behind the initialization check: every way
\* it can end, given the collection and the cache
getWallet(docs, db, cache, key, u, a) ==
  IF \E e \in cache : e.key = CacheKeyGet(u, a) /\ CacheFresh(e)
    THEN {CallResult("return", FALSE, NoWallet, <<>>)}          \* cached.wallet
  ELSE IF u \notin docs THEN {CallResult("throw", FALSE, NoWallet, MsgUserNotFound)}
  ELSE IF ~HasMatch(db, u, a) THEN {CallResult("return", FALSE, NoWallet, <<>>)}   \* null
  ELSE LET r == MatchOf(db, u, a) IN
    { IF pk.tag = "throw" \/ mn.tag = "throw"
        THEN CallResult("throw", FALSE, NoWallet, MsgDecryptWallet)
        ELSE CallResult("return", TRUE, Wallet(r.address, pk.val, mn.val, r.network), <<>>)
      : pk \in decrypt(key, r.encryptedPrivateKey), mn \in decrypt(key, r.encryptedMnemonic) }

\* value: the boolean a call returned (deleteWallet, setAutonomousWallet,
\* isAutonomousWallet)
Call(op, u, n, a, ready, res, value) ==
  [op |-> op, user |-> u, network |-> n, address |-> a, ready |-> ready, res |-> res,
   value |-> value]

NoCall == Call("none", 0, "", "", FALSE, CallResult("return", FALSE, NoWallet, <<>>), FALSE)

NoAutonomyCall == [user |-> 0, address |-> "", network |-> ""]

\* the providers and the health report of a service not yet initialized
HealthAtRest ==
  /\ walletProviders = {}
  /\ initOutcomes = [n \in Networks |-> "none"]
  /\ initLog = {}
  /\ providerState = [n \in Networks |-> "new"]
  /\ initReturn = "none"
  /\ initRuns = 0
  /\ healthAnswers = [n \in Networks |-> "none"]
  /\ healthProbed = <<>>
  /\ healthReport = <<>>

WalletInit ==
  /\ isInitialized = FALSE
  /\ usersDb \in SUBSET PriorRecords
  /\ userDocs \in {d \in SUBSET Users : \A r \in usersDb : r.user \in d}
  /\ walletCache = {}
  /\ walletEvents = {}
  /\ walletCount = [n \in Networks |-> 0]
  /\ lastCall = NoCall
  /\ autonomyCall = NoAutonomyCall
  /\ autonomyGranted = {}
  /\ HealthAtRest
  /\ metricsDown \in BOOLEAN
  /\ walletClock = 0
  /\ lastSweep = -1

\* how provider.initialize() can go within initialize(): it resolves, it
\* rejects, or it is still running when the 40 s timer rejects the race
ProviderOutcomes == {"ok", "error", "timeout"}
AllOk == [n \in Networks |-> "ok"]

\* Promise.race([provider.initialize(), <timer>]) as Promise.allSettled
\* reports it, for the providers in the order of Object.values
RaceResults(o) ==
  [i \in 1..Len(NetworkOrder) |->
     IF o[NetworkOrder[i]] = "ok" THEN [status |-> "fulfilled", reason |-> <<>>]
     ELSE IF o[NetworkOrder[i]] = "timeout"
       THEN [status |-> "rejected", reason |-> <<"Provider initialization timeout">>]
       ELSE [status |-> "rejected", reason |-> <<"provider error">>]]

\* results.forEach: one log line per provider, named by its index
InitLogOf(results) ==
  {<<IF results[i].status = "fulfilled" THEN "initialized" ELSE "failed to initialize",
     NetworkOrder[i]>> : i \in 1..Len(results)}

\* rejects as soon as one provider does
InitReturn_FailFast(results) ==
  IF \E i \in 1..Len(results) : results[i].status = "rejected" THEN "throw" ELSE "true"

\* await Promise.allSettled(...) never rejects: initialize() goes on to
\* return true
InitReturn(results) == "true"

MsgDbConnect == <<"Failed to connect to MongoDB after all retries">>

\* forgets a promise that was rejected
HasInitializationPromise_UnlessRejected(ret) == ret \notin {"none", "throw"}

\* if (this.initializationPromise): assigned by the first call, before its
\* first await, and by nothing else
HasInitializationPromise(ret) == ret # "none"

\* the body of initialize() with the database connected and the providers
\* going as o says
InitEffect(o) ==
  LET results == RaceResults(o) IN
  /\ initRuns' = IF initReturn = "pending" THEN initRuns ELSE initRuns + 1
  /\ walletProviders' = Networks
  /\ initOutcomes' = o
  /\ providerState' = [n \in Networks |->
                         IF o[n] = "ok" THEN "initialized"
                         ELSE IF o[n] = "timeout" THEN "pending" ELSE "failed"]
  /\ initReturn' = InitReturn(results)
  /\ initLog' = IF InitReturn(results) = "true" THEN InitLogOf(results) ELSE {}
  /\ isInitialized' = (InitReturn(results) = "true")

\* the body of initialize() when db.connect() rejects: the catch rethrows,
\* no provider is constructed
InitFails ==
  /\ initRuns' = IF initReturn = "pending" THEN initRuns ELSE initRuns + 1
  /\ initReturn' = "throw"
  /\ UNCHANGED <<isInitialized, walletProviders, initOutcomes, initLog, providerState>>

\* initialize(); a second call returns the promise of the first
InitializeWallets(o) ==
  /\ ~HasInitializationPromise(initReturn)
  /\ InitEffect(o)
  /\ UNCHANGED <<userDocs, usersDb, walletCache, walletEvents, walletCount, lastCall,
                 autonomyCall, autonomyGranted, probeVars, metricsDown, walletClock, lastSweep, queueVars, cipherVars, infraVars>>

\* a provider.initialize() that lost the race settles afterwards
ProviderSettlesLate(n, ok) ==
  /\ providerState[n] = "pending"
  /\ providerState' = [providerState EXCEPT ![n] = IF ok THEN "initialized" ELSE "failed"]
  /\ UNCHANGED <<isInitialized, walletProviders, initOutcomes, initLog, initReturn, initRuns,
                 userDocs, usersDb, walletCache, walletEvents, walletCount, lastCall,
                 autonomyCall, autonomyGranted, probeVars, metricsDown, walletClock, lastSweep, queueVars, cipherVars, infraVars>>

\* createWallet(userId, network); a and salt are the address the provider
\* would generate and the salt of the encryption
CreateWallet(u, n, a, salt) ==
  LET provider == getProvider(n)                \* not awaited
      wallet == Wallet(a, "pk-new", "mn-new", n)
      pk == encrypt(encKey, wallet.privateKey, salt)
      mn == encrypt(encKey, wallet.mnemonic, salt)
      fail(msg) ==
        /\ lastCall' = Call("createWallet", u, n, "", isInitialized,
                             CallResult("throw", FALSE, NoWallet, msg), FALSE)
        /\ UNCHANGED <<userDocs, usersDb, walletCache, walletEvents, walletCount>>
  IN
  /\ IF ~isInitialized THEN fail(MsgNotInitialized)
     ELSE IF ~HasCreateWallet(provider) THEN fail(MsgNoCreateWallet)
     ELSE IF pk.tag = "throw" THEN fail(pk.err)
     ELSE IF metricsDown
       THEN \* the record is written, then incrementWalletTally rethrows
            /\ userDocs' = userDocs \cup {u}
            /\ usersDb' = usersDb \cup {WalletRec(u, n, a, pk.val, mn.val)}
            /\ lastCall' = Call("createWallet", u, n, "", TRUE,
                                 CallResult("throw", FALSE, NoWallet, MsgMetricsWrite), FALSE)
            /\ UNCHANGED <<walletCache, walletEvents, walletCount>>
     ELSE /\ userDocs' = userDocs \cup {u}
          /\ usersDb' = usersDb \cup {WalletRec(u, n, a, pk.val, mn.val)}
          /\ walletCount' = [walletCount EXCEPT ![n] = @ + 1]
          /\ walletCache' = cacheWallet(walletCache, u, a, wallet)
          /\ walletEvents' = walletEvents \cup {<<"metricsUpdated", n>>, <<"walletCreated", a>>}
          /\ lastCall' = Call("createWallet", u, n, a, TRUE,
                               CallResult("return", TRUE, wallet, <<>>), FALSE)
  /\ UNCHANGED <<initVars, probeVars, autonomyCall, autonomyGranted, metricsDown, walletClock, lastSweep, queueVars, cipherVars, infraVars>>

\* what a caller gets who awaits the promise of initialize()
AwaitInitialization(ret) ==
  IF ret = "true" THEN CallResult("return", FALSE, NoWallet, <<>>)
  ELSE IF ret = "pending" THEN CallResult("pending", FALSE, NoWallet, <<>>)
  ELSE CallResult("throw", FALSE, NoWallet, MsgDbConnect)

\* initialize(), any call: the promise kept from the first call, or a new
\* one whose body runs up to its first await, db.connect()
InitializeCall ==
  /\ IF HasInitializationPromise(initReturn)
       THEN UNCHANGED initVars
       ELSE /\ initReturn' = "pending"
            /\ initRuns' = initRuns + 1
            /\ UNCHANGED <<isInitialized, walletProviders, initOutcomes, initLog, providerState>>
  /\ lastCall' = Call("initialize", 0, "", "", isInitialized, AwaitInitialization(initReturn'),
                      initReturn' = "true")
  /\ UNCHANGED <<userDocs, usersDb, walletCache, walletEvents, walletCount,
                 autonomyCall, autonomyGranted, probeVars, metricsDown, walletClock, lastSweep,
                 queueVars, cipherVars, infraVars>>

\* db.connect() of the running body settles and the body runs to its end
InitializeSettles(dbOk) ==
  /\ initReturn = "pending"
  /\ IF dbOk THEN InitEffect(AllOk) ELSE InitFails
  /\ UNCHANGED <<userDocs, usersDb, walletCache, walletEvents, walletCount, lastCall,
                 autonomyCall, autonomyGranted, probeVars, metricsDown, walletClock, lastSweep,
                 queueVars, cipherVars, infraVars>>

\* getWallet(userId, address): if (!this.isInitialized) await
\* this.initialize(), with the database answering (dbOk) or not, then the
\* lookup
GetWalletVia(u, a, dbOk) ==
  /\ initReturn # "pending"
  /\ IF HasInitializationPromise(initReturn) THEN UNCHANGED initVars
     ELSE IF dbOk THEN InitEffect(AllOk) ELSE InitFails
  /\ IF initReturn' = "throw"
       THEN /\ lastCall' = Call("getWallet", u, "", a, FALSE, AwaitInitialization("throw"), FALSE)
            /\ UNCHANGED walletCache
       ELSE \E res \in getWallet(userDocs, usersDb, walletCache, encKey, u, a) :
              /\ lastCall' = Call("getWallet", u, "", a, TRUE, res, FALSE)
              /\ walletCache' = IF res.found THEN cacheWallet(walletCache, u, a, res.wallet)
                                ELSE walletCache
  /\ UNCHANGED <<userDocs, usersDb, walletEvents, walletCount, autonomyCall, autonomyGranted,
                 probeVars, metricsDown, walletClock, lastSweep, queueVars, cipherVars, infraVars>>

\* getWallet with the database reachable
GetWallet(u, a) == GetWalletVia(u, a, TRUE)

\* removeFromCache(userId, address)
removeFromCache(cache, u, a) == {e \in cache : e.key # CacheKeySet(u, a)}

\* updateOne({telegramId: u}, {$pull: {wallets.<n>: {address: a}}}): the
\* collection afterwards, and result.modifiedCount
Pull(db, u, n, a) == {r \in db : ~(r.user = u /\ r.network = n /\ r.address = a)}

\* counts the documents the filter matched, changed or not
ModifiedCount_Matched(docs, db, u, n, a) == IF u \in docs THEN 1 ELSE 0

ModifiedCount(docs, db, u, n, a) == IF Pull(db, u, n, a) # db THEN 1 ELSE 0

MsgNotInitializedShort == <<"WalletService is not initialized">>
MsgWalletNotFound == <<"Wallet not found">>

\* deleteWallet(userId, network, address)
DeleteWallet(u, n, a) ==
  /\ IF ~isInitialized
       THEN /\ lastCall' = Call("deleteWallet", u, n, a, FALSE,
                                 CallResult("throw", FALSE, NoWallet, MsgNotInitialized), FALSE)
            /\ UNCHANGED <<usersDb, walletCache, walletEvents>>
     ELSE IF ModifiedCount(userDocs, usersDb, u, n, a) > 0
       THEN /\ usersDb' = Pull(usersDb, u, n, a)
            /\ walletCache' = removeFromCache(walletCache, u, a)
            /\ walletEvents' = walletEvents \cup {<<"walletDeleted", a, n, u>>}
            /\ lastCall' = Call("deleteWallet", u, n, a, TRUE,
                                 CallResult("return", FALSE, NoWallet, <<>>), TRUE)
       ELSE /\ usersDb' = Pull(usersDb, u, n, a)
            /\ lastCall' = Call("deleteWallet", u, n, a, TRUE,
                                 CallResult("return", FALSE, NoWallet, <<>>), FALSE)
            /\ UNCHANGED <<walletCache, walletEvents>>
  /\ UNCHANGED <<initVars, probeVars, userDocs, walletCount, autonomyCall, autonomyGranted,
                 metricsDown, walletClock, lastSweep, queueVars, cipherVars, infraVars>>

\* setAutonomousWallet(userId, address) up to its second await: the
\* initialization check and the getWallet call.  One call is in flight at a
\* time.
SetAutonomousBegin(u, a) ==
  /\ autonomyCall = NoAutonomyCall
  /\ IF ~isInitialized
       THEN /\ lastCall' = Call("setAutonomousWallet", u, "", a, FALSE,
                                 CallResult("throw", FALSE, NoWallet, MsgNotInitializedShort), FALSE)
            /\ UNCHANGED <<walletCache, autonomyCall>>
       ELSE \E res \in getWallet(userDocs, usersDb, walletCache, encKey, u, a) :
            /\ walletCache' = IF res.found THEN cacheWallet(walletCache, u, a, res.wallet)
                              ELSE walletCache
            /\ IF res.tag = "throw"
                 THEN /\ lastCall' = Call("setAutonomousWallet", u, "", a, TRUE, res, FALSE)
                      /\ UNCHANGED autonomyCall
               ELSE IF ~res.found
                 THEN /\ lastCall' = Call("setAutonomousWallet", u, "", a, TRUE,
                                           CallResult("throw", FALSE, NoWallet, MsgWalletNotFound), FALSE)
                      /\ UNCHANGED autonomyCall
                 ELSE /\ lastCall' = Call("getWallet", u, "", a, TRUE, res, FALSE)
                      /\ autonomyCall' = [user |-> u, address |-> a, network |-> res.wallet.network]
  /\ UNCHANGED <<initVars, probeVars, userDocs, usersDb, walletEvents, walletCount, autonomyGranted,
                 metricsDown, walletClock, lastSweep, queueVars, cipherVars, infraVars>>

\* writes the wallet getWallet returned, decrypted fields included, back
\* into the array element
SetFlag_WritesWallet(db, u, n, a) ==
  {IF r.user = u /\ r.network = n /\ r.address = a
     THEN [r EXCEPT !.isAutonomous = TRUE,
                    !.encryptedPrivateKey = Ct("plain", "", 0, @.plain),
                    !.encryptedMnemonic = Ct("plain", "", 0, @.plain)]
     ELSE r
     : r \in db}

\* User.updateOne({telegramId, wallets.<n>: {$elemMatch: {address}}},
\*                {$set: {wallets.<n>.$.isAutonomous: true}})
SetFlag(db, u, n, a) ==
  {IF r.user = u /\ r.network = n /\ r.address = a THEN [r EXCEPT !.isAutonomous = TRUE] ELSE r
     : r \in db}

\* the rest of setAutonomousWallet: the update, and return true
SetAutonomousUpdate ==
  /\ autonomyCall # NoAutonomyCall
  /\ usersDb' = SetFlag(usersDb, autonomyCall.user, autonomyCall.network, autonomyCall.address)
  /\ autonomyGranted' = autonomyGranted \cup {<<autonomyCall.user, autonomyCall.address>>}
  /\ lastCall' = Call("setAutonomousWallet", autonomyCall.user, autonomyCall.network,
                      autonomyCall.address, TRUE, CallResult("return", FALSE, NoWallet, <<>>), TRUE)
  /\ autonomyCall' = NoAutonomyCall
  /\ UNCHANGED <<initVars, probeVars, userDocs, walletCache, walletEvents, walletCount,
                 metricsDown, walletClock, lastSweep, queueVars, cipherVars, infraVars>>

\* answers from the decrypted-wallet cache when it holds the wallet; a
\* cached wallet carries no flag
AutonomyFlag_FromCache(db, cache, u, n, a) ==
  IF \E e \in cache : e.key = CacheKeySet(u, a) THEN FALSE
  ELSE \E r \in db : r.user = u /\ r.network = n /\ r.address = a /\ r.isAutonomous

\* user.wallets[network].find(w => w.address === address)?.isAutonomous || false
\* on the document User.findOne just read
AutonomyFlag(db, cache, u, n, a) ==
  \E r \in db : r.user = u /\ r.network = n /\ r.address = a /\ r.isAutonomous

\* isAutonomousWallet(userId, network, address)
IsAutonomousWallet(u, n, a) ==
  /\ lastCall' = Call("isAutonomousWallet", u, n, a, isInitialized,
                      CallResult("return", FALSE, NoWallet, <<>>),
                      AutonomyFlag(usersDb, walletCache, u, n, a))
  /\ UNCHANGED <<initVars, probeVars, userDocs, usersDb, walletCache, walletEvents, walletCount,
                 autonomyCall, autonomyGranted, metricsDown, walletClock, lastSweep, queueVars, cipherVars, infraVars>>

\* how provider.checkHealth() can go: it resolves, or it throws an error
\* with this message
HealthAnswers == {"ok", "RPC unreachable", "provider.checkHealth is not a function"}

\* the providers in the order Object.entries walks this.walletProviders
ProviderOrder(providers) == SelectSeq(NetworkOrder, LAMBDA n : n \in providers)

\* the entry checkHealth pushes for one provider
HealthEntry(n, answer) ==
  IF answer = "ok" THEN [network |-> n, status |-> "healthy", error |-> <<>>]
  ELSE [network |-> n, status |-> "unhealthy", error |-> <<answer>>]

\* without the try / catch around each probe: the first failing provider
\* ends the loop and the call
checkHealth_NoCatch(providers, answers) ==
  LET order == ProviderOrder(providers)
      fails == {i \in 1..Len(order) : answers[order[i]] # "ok"}
      k == CHOOSE i \in fails : \A j \in fails : i <= j
  IN IF fails = {}
       THEN [tag |-> "return", probed |-> order,
             report |-> [i \in 1..Len(order) |-> HealthEntry(order[i], answers[order[i]])]]
       ELSE [tag |-> "throw", probed |-> SubSeq(order, 1, k), report |-> <<>>]

\* checkHealth(): what it probes and what it returns when the providers
\* answer as answers says
checkHealth(providers, answers) ==
  LET order == ProviderOrder(providers)
  IN [tag |-> "return", probed |-> order,
      report |-> [i \in 1..Len(order) |-> HealthEntry(order[i], answers[order[i]])]]

CheckHealth(answers) ==
  LET r == checkHealth(walletProviders, answers) IN
  /\ healthAnswers' = answers
  /\ healthProbed' = r.probed
  /\ healthReport' = r.report
  /\ lastCall' = Call("checkHealth", 0, "", "", isInitialized,
                      CallResult(r.tag, FALSE, NoWallet, <<>>), FALSE)
  /\ UNCHANGED <<initVars, userDocs, usersDb, walletCache, walletEvents, walletCount,
                 autonomyCall, autonomyGranted, metricsDown, walletClock, lastSweep, queueVars, cipherVars, infraVars>>

\* time goes by
TimePasses ==
  /\ walletClock < MaxClock
  /\ walletClock' = walletClock + 1
  /\ UNCHANGED <<initVars, probeVars, userDocs, usersDb, walletCache, walletEvents, walletCount,
                 lastCall, autonomyCall, autonomyGranted, metricsDown, lastSweep,
                 queueVars, cipherVars, infraVars>>

\* now - value.timestamp > walletService.CACHE_DURATION: CACHE_DURATION is
\* never assigned, and no number is above undefined
SweepDeletes(entry, now) == FALSE

\* the 24-hour interval at the end of the module fires
CacheSweep ==
  /\ walletCache' = {e \in walletCache : ~SweepDeletes(e, walletClock)}
  /\ lastSweep' = walletClock
  /\ UNCHANGED <<initVars, probeVars, userDocs, usersDb, walletEvents, walletCount,
                 lastCall, autonomyCall, autonomyGranted, metricsDown, walletClock,
                 queueVars, cipherVars, infraVars>>

WalletNext ==
  \/ InitializeWallets(AllOk)
  \/ \E u \in Users, n \in Networks \cup {"polygon"} : CreateWallet(u, n, "A9", 1)
  \/ \E u \in Users, a \in Addresses : GetWallet(u, a)

\* ======================================================= CircuitBreaker ==
\* core/circuit-breaker/index.js is not among the sources; the registry is
\* the state machine of the design document: closed -> open at the
\* threshold, open -> half-open for one trial after the cooldown, then
\* closed on success or open again on failure.  Every transition is one
\* atomic step; the wrapped operation runs between two of them.
BreakerNames == {"brave", "wallets"}     \* performInternetSearch, WalletsCommand.execute
BreakerThreshold == 2                    \* the configured failure threshold N

NewBreaker == [state |-> "closed", failures |-> 0, cooled |-> FALSE]

\* lets every call through while the breaker is half-open
Admit_EveryTrial(b) ==
  IF b.state = "closed" THEN "pass"
  ELSE IF b.state = "open" /\ ~b.cooled THEN "reject"
  ELSE "trial"

\* what executeWithBreaker decides for a call that finds the breaker as b
Admit(b) ==
  IF b.state = "closed" THEN "pass"
  ELSE IF b.state = "open" /\ b.cooled THEN "trial"
  ELSE "reject"

BreakerCall(name, status, trial) == [name |-> name, status |-> status, trial |-> trial]

BreakerInit ==
  /\ breakers = [name \in BreakerNames |-> NewBreaker]
  /\ breakerCalls = <<>>

\* executeWithBreaker(name, operation, config) up to the start of operation()
ExecuteWithBreaker(name) ==
  LET d == Admit(breakers[name]) IN
  /\ Len(breakerCalls) < MaxBreakerCalls
  /\ breakerCalls' = Append(breakerCalls,
        IF d = "reject" THEN BreakerCall(name, "rejected", FALSE)      \* CircuitOpenError
        ELSE BreakerCall(name, "running", d = "trial"))
  /\ breakers' = IF d = "trial" THEN [breakers EXCEPT ![name].state = "half-open"]
                 ELSE breakers
  /\ UNCHANGED <<solanaVars, tradeVars, queueVars, cipherVars, walletVars>>

\* the breaker after the operation of a call settled
AfterOperation(b, trial, ok) ==
  IF trial THEN IF ok THEN NewBreaker
                ELSE [state |-> "open", failures |-> b.failures, cooled |-> FALSE]
  ELSE IF b.state # "closed" THEN b
  ELSE IF ok THEN [b EXCEPT !.failures = 0]
  ELSE IF b.failures + 1 >= BreakerThreshold
    THEN [state |-> "open", failures |-> b.failures + 1, cooled |-> FALSE]
    ELSE [b EXCEPT !.failures = @ + 1]

\* operation() of call i resolves (ok) or rejects
OperationSettles(i, ok) ==
  /\ i \in 1..Len(breakerCalls) /\ breakerCalls[i].status = "running"
  /\ breakerCalls' = [breakerCalls EXCEPT ![i].status = IF ok THEN "succeeded" ELSE "failed"]
  /\ breakers' = [breakers EXCEPT ![breakerCalls[i].name] =
                    AfterOperation(@, breakerCalls[i].trial, ok)]
  /\ UNCHANGED <<solanaVars, tradeVars, queueVars, cipherVars, walletVars>>

\* the cooldown window of an open breaker elapses
CooldownElapses(name) ==
  /\ breakers[name].state = "open" /\ ~breakers[name].cooled
  /\ breakers' = [breakers EXCEPT ![name].cooled = TRUE]
  /\ UNCHANGED <<breakerCalls, solanaVars, tradeVars, queueVars, cipherVars, walletVars>>

BreakerNext ==
  \/ \E name \in BreakerNames : ExecuteWithBreaker(name)
  \/ \E i \in 1..MaxBreakerCalls, ok \in BOOLEAN : OperationSettles(i, ok)
  \/ \E name \in BreakerNames : CooldownElapses(name)

\* ========================================================= SolanaWallet ==
\* RPC_ENDPOINTS
RpcPrimary == <<"quiknode">>
RpcFallback == <<"fallback">>

\* tries the fallback endpoints first
ProbeOrder_FallbackFirst == RpcFallback \o RpcPrimary

\* const endpoints = [...RPC_ENDPOINTS.primary, ...RPC_ENDPOINTS.fallback]
ProbeOrder == RpcPrimary \o RpcFallback

\* A socket chain is the WebSocket one setupWebSocket() call of initialize()
\* made, followed by the sockets the close handler's reconnects put in its
\* place: connecting | open | closing | backoff (closed, the 5 s reconnect
\* timer pending) | dead (closed, nothing pending).
NoCreate == [tag |-> "none", address |-> "", err |-> <<>>, endpoint |-> ""]

\* A promise nobody awaits is rejected.  What the host does with it is
\* decided outside this class: with the runtime's default and no
\* 'unhandledRejection' listener the process ends, otherwise it goes on.
UnhandledRejection == hostProcess' \in {"running", "exited"}

SolanaInit ==
  /\ hostProcess = "running"
  /\ rpcEndpoint = ""
  /\ solInitialized = FALSE
  /\ healthChecks = FALSE
  /\ sockets = <<>>
  /\ webSocket = 0
  /\ wsReady = FALSE
  /\ pingTimer = "none"
  /\ lastBeat = "none"
  /\ initTask = "idle"
  /\ initWaiting = 0
  /\ initCalls = 0
  /\ initStarts = 0
  /\ healthStarts = 0
  /\ solCleaned = FALSE
  /\ solCreate = NoCreate
  /\ probeAt = 0
  /\ probeTrigger = "none"
  /\ probeTried = <<>>
  /\ probeResult = "none"
  /\ probeRuns = 0
  /\ rpcUsed = "none"

\* setupRpcConnection() is entered
StartProbe(trigger) ==
  /\ probeAt = 0 /\ probeRuns < MaxProbes
  /\ probeAt' = 1
  /\ probeTrigger' = trigger
  /\ probeTried' = <<>>
  /\ probeResult' = "running"
  /\ probeRuns' = probeRuns + 1

\* runs the whole task whatever the state says
InitTaskReturnsEarly_Never(initialized) == FALSE

\* if (this.state.initialized) return;
InitTaskReturnsEarly(initialized) == initialized

\* the task initialize() put into this.queue starts: it returns at once, or
\* runs up to the first rpcRequest of setupRpcConnection()
InitTaskStarts ==
  IF InitTaskReturnsEarly(solInitialized)
    THEN UNCHANGED <<initTask, initStarts, probeAt, probeTrigger, probeTried, probeResult, probeRuns>>
    ELSE /\ Len(sockets) < MaxSockets
         /\ StartProbe("init")
         /\ initTask' = "probe"
         /\ initStarts' = initStarts + 1

\* initialize(): this.queue has concurrency 1, so the task starts now when
\* no other initialize task is running and waits otherwise
SolanaInitialize ==
  /\ hostProcess = "running"
  /\ initCalls < MaxInitCalls
  /\ initCalls' = initCalls + 1
  /\ IF initTask = "idle"
       THEN InitTaskStarts /\ UNCHANGED initWaiting
       ELSE /\ initWaiting' = initWaiting + 1
            /\ UNCHANGED <<initTask, initStarts, probeAt, probeTrigger, probeTried, probeResult,
                           probeRuns>>
  /\ UNCHANGED <<rpcEndpoint, solInitialized, healthChecks, sockets, webSocket, wsReady, pingTimer,
                 lastBeat, healthStarts, solCleaned, solCreate, rpcUsed,
                 hostProcess, breakerVars, tradeVars, queueVars, cipherVars, walletVars>>

\* the initialize task at the head of this.queue starts after the one
\* before it settled
InitNextTask ==
  /\ hostProcess = "running"
  /\ initTask = "idle" /\ initWaiting > 0
  /\ initWaiting' = initWaiting - 1
  /\ InitTaskStarts
  /\ UNCHANGED <<rpcEndpoint, solInitialized, healthChecks, sockets, webSocket, wsReady, pingTimer,
                 lastBeat, initCalls, healthStarts, solCleaned, solCreate, rpcUsed,
                 hostProcess, breakerVars, tradeVars, queueVars, cipherVars, walletVars>>

\* the 30-minute health check: this.connection is null, reading
\* this.connection.rpcRequest throws, and the catch re-runs the probe
HealthCheckFails ==
  /\ hostProcess = "running"
  /\ healthChecks
  /\ StartProbe("health")
  /\ UNCHANGED <<rpcEndpoint, solInitialized, healthChecks, sockets, webSocket, wsReady, pingTimer,
                 lastBeat, initTask, initWaiting, initCalls, initStarts, healthStarts, solCleaned,
                 solCreate, rpcUsed, hostProcess, breakerVars, tradeVars, queueVars, cipherVars, walletVars>>

\* rpcRequest(endpoint, 'getVersion') of the probe resolves (ok) or throws:
\* one turn of the loop of setupRpcConnection.  Under initialize() an
\* answer leads on to setupWebSocket(), and the throw after the last
\* endpoint rejects the task; under a health check that throw is lost.
ProbeAnswer(ok) ==
  LET endpoint == ProbeOrder[probeAt]
      last == probeAt = Len(ProbeOrder)
  IN
  /\ hostProcess = "running"
  /\ probeAt > 0
  /\ probeTried' = Append(probeTried, [endpoint |-> endpoint, ok |-> ok])
  /\ IF ok
       THEN /\ rpcEndpoint' = endpoint
            /\ probeResult' = "selected"
            /\ probeAt' = 0
            /\ IF probeTrigger = "init"
                 THEN /\ sockets' = Append(sockets, "connecting")
                      /\ initTask' = "socket"
                 ELSE UNCHANGED <<sockets, initTask>>
       ELSE /\ probeAt' = IF last THEN 0 ELSE probeAt + 1
            /\ probeResult' = IF last THEN "allFailed" ELSE "running"
            /\ initTask' = IF last /\ probeTrigger = "init" THEN "idle" ELSE initTask
            /\ UNCHANGED <<rpcEndpoint, sockets>>
  /\ IF ~ok /\ last /\ probeTrigger = "health" THEN UnhandledRejection ELSE UNCHANGED hostProcess
  /\ UNCHANGED <<solInitialized, healthChecks, webSocket, wsReady, pingTimer, lastBeat, initWaiting,
                 initCalls, initStarts, healthStarts, solCleaned, solCreate, probeTrigger, probeRuns,
                 rpcUsed, breakerVars, tradeVars, queueVars, cipherVars, walletVars>>

\* the socket of chain i is the one the running initialize task awaits
AwaitedByInit(i) == initTask = "socket" /\ i = Len(sockets)

\* the 'open' handler of setupWebSocket: this.webSocket, wsReady,
\* heartbeat(), resolve(); initialize() then starts the health checks and
\* sets initialized
WsOpen(i) ==
  /\ hostProcess = "running"
  /\ i \in 1..Len(sockets) /\ sockets[i] = "connecting"
  /\ sockets' = [sockets EXCEPT ![i] = "open"]
  /\ webSocket' = i
  /\ wsReady' = TRUE
  /\ pingTimer' = "armed"
  /\ IF AwaitedByInit(i)
       THEN /\ healthChecks' = TRUE
            /\ healthStarts' = healthStarts + 1
            /\ solInitialized' = TRUE
            /\ initTask' = "idle"
       ELSE UNCHANGED <<healthChecks, healthStarts, solInitialized, initTask>>
  /\ UNCHANGED <<rpcEndpoint, lastBeat, initWaiting, initCalls, initStarts, solCleaned, solCreate,
                 probeAt, probeTrigger, probeTried, probeResult, probeRuns, rpcUsed,
                 hostProcess, breakerVars, tradeVars, queueVars, cipherVars, walletVars>>

\* ws.on('close', () => this.reconnectWebSocket()): whatever the socket
\* had come to, the 5 s reconnect timer is set
OnClose(wasOpen) == "backoff"

\* the connection attempt of chain i fails: 'error' rejects the promise of
\* setupWebSocket (and with it the initialize task, if it is the one
\* awaiting it; the promise of a reconnect is awaited by nobody), 'close'
\* follows
WsError(i) ==
  /\ hostProcess = "running"
  /\ i \in 1..Len(sockets) /\ sockets[i] = "connecting"
  /\ sockets' = [sockets EXCEPT ![i] = OnClose(FALSE)]
  /\ initTask' = IF AwaitedByInit(i) THEN "idle" ELSE initTask
  /\ IF AwaitedByInit(i) THEN UNCHANGED hostProcess ELSE UnhandledRejection
  /\ UNCHANGED <<rpcEndpoint, solInitialized, healthChecks, webSocket, wsReady, pingTimer, lastBeat,
                 initWaiting, initCalls, initStarts, healthStarts, solCleaned, solCreate,
                 probeAt, probeTrigger, probeTried, probeResult, probeRuns, rpcUsed,
                 breakerVars, tradeVars, queueVars, cipherVars, walletVars>>

\* the open socket of chain i closes (the peer or the network ends it, or
\* the close cleanup() asked for completes): 'close'
WsClose(i) ==
  /\ hostProcess = "running"
  /\ i \in 1..Len(sockets) /\ sockets[i] \in {"open", "closing"}
  /\ sockets' = [sockets EXCEPT ![i] = OnClose(TRUE)]
  /\ UNCHANGED <<rpcEndpoint, solInitialized, healthChecks, webSocket, wsReady, pingTimer, lastBeat,
                 initTask, initWaiting, initCalls, initStarts, healthStarts, solCleaned, solCreate,
                 probeAt, probeTrigger, probeTried, probeResult, probeRuns, rpcUsed,
                 hostProcess, breakerVars, tradeVars, queueVars, cipherVars, walletVars>>

\* the timer of reconnectWebSocket fires: setupWebSocket() makes a new socket
ReconnectFires(i) ==
  /\ hostProcess = "running"
  /\ i \in 1..Len(sockets) /\ sockets[i] = "backoff"
  /\ sockets' = [sockets EXCEPT ![i] = "connecting"]
  /\ UNCHANGED <<rpcEndpoint, solInitialized, healthChecks, webSocket, wsReady, pingTimer, lastBeat,
                 initTask, initWaiting, initCalls, initStarts, healthStarts, solCleaned, solCreate,
                 probeAt, probeTrigger, probeTried, probeResult, probeRuns, rpcUsed,
                 hostProcess, breakerVars, tradeVars, queueVars, cipherVars, walletVars>>

\* this.webSocket?.readyState === WebSocket.OPEN
WebSocketIsOpen == webSocket # 0 /\ sockets[webSocket] = "open"

\* heartbeat() sets one setTimeout; nothing in its callback sets another
AfterHeartbeat == "fired"

\* the timer of heartbeat() fires: a ping when the socket is open, a
\* warning otherwise
HeartbeatFires ==
  /\ hostProcess = "running"
  /\ pingTimer = "armed"
  /\ pingTimer' = AfterHeartbeat
  /\ lastBeat' = IF WebSocketIsOpen THEN "ping" ELSE "skip"
  /\ UNCHANGED <<rpcEndpoint, solInitialized, healthChecks, sockets, webSocket, wsReady,
                 initTask, initWaiting, initCalls, initStarts, healthStarts, solCleaned, solCreate,
                 probeAt, probeTrigger, probeTried, probeResult, probeRuns, rpcUsed,
                 hostProcess, breakerVars, tradeVars, queueVars, cipherVars, walletVars>>

\* cleanup(): this.webSocket?.close(), clearInterval, clearTimeout.  The
\* close handler of the socket stays in place.
SolanaCleanup ==
  /\ hostProcess = "running"
  /\ sockets' = IF WebSocketIsOpen THEN [sockets EXCEPT ![webSocket] = "closing"] ELSE sockets
  /\ healthChecks' = FALSE
  /\ pingTimer' = IF pingTimer = "armed" THEN "cleared" ELSE pingTimer
  /\ solCleaned' = TRUE
  /\ UNCHANGED <<rpcEndpoint, solInitialized, webSocket, wsReady, lastBeat,
                 initTask, initWaiting, initCalls, initStarts, healthStarts, solCreate,
                 probeAt, probeTrigger, probeTried, probeResult, probeRuns, rpcUsed,
                 hostProcess, breakerVars, tradeVars, queueVars, cipherVars, walletVars>>

\* getBalance / getSlot / sendTransaction ...: rpcRequest(this.state.rpcEndpoint, ...)
RpcCall ==
  /\ hostProcess = "running"
  /\ rpcUsed' = rpcEndpoint
  /\ UNCHANGED <<rpcEndpoint, solInitialized, healthChecks, sockets, webSocket, wsReady, pingTimer,
                 lastBeat, initTask, initWaiting, initCalls, initStarts, healthStarts, solCleaned,
                 solCreate, probeAt, probeTrigger, probeTried, probeResult, probeRuns,
                 hostProcess, breakerVars, tradeVars, queueVars, cipherVars, walletVars>>

\* how the getTokenAccountsByOwner request of setupTokenReception can go
\* (it throws, it finds no account, it finds some), and how the
\* sendTransaction of createTokenAccountIfNeeded can
TokenLookups == {"throw", "none", "some"}
AccountCreations == {"ok", "throw"}

MsgRpcRequest == <<"RPC Request Error: ">>

\* createWallet(): the key pair is derived, then setupTokenReception is
\* awaited.  With no token account found, createTokenAccountIfNeeded calls
\* getAccount with the endpoint string in place of a Connection, which
\* throws, and its catch sends the account-creating transaction.
createSolanaWallet(lookup, creation) ==
  IF lookup = "throw"
    THEN [tag |-> "throw", address |-> "", err |-> MsgRpcRequest, endpoint |-> rpcEndpoint]
  ELSE IF lookup = "none" /\ creation = "throw"
    THEN [tag |-> "throw", address |-> "", err |-> MsgRpcRequest, endpoint |-> rpcEndpoint]
  ELSE [tag |-> "return", address |-> "S1", err |-> <<>>, endpoint |-> rpcEndpoint]

\* createWallet() of the provider; with no endpoint selected the lookup
\* request has nowhere to go and throws
SolanaCreateWallet(lookup, creation) ==
  /\ hostProcess = "running"
  /\ rpcEndpoint = "" => lookup = "throw"
  /\ solCreate' = createSolanaWallet(lookup, creation)
  /\ UNCHANGED <<rpcEndpoint, solInitialized, healthChecks, sockets, webSocket, wsReady, pingTimer,
                 lastBeat, initTask, initWaiting, initCalls, initStarts, healthStarts, solCleaned,
                 probeAt, probeTrigger, probeTried, probeResult, probeRuns, rpcUsed,
                 hostProcess, breakerVars, tradeVars, queueVars, cipherVars, walletVars>>

SolanaNext ==
  \/ SolanaInitialize
  \/ InitNextTask
  \/ HealthCheckFails
  \/ \E ok \in BOOLEAN : ProbeAnswer(ok)
  \/ \E i \in 1..MaxSockets : WsOpen(i)
  \/ \E i \in 1..MaxSockets : WsError(i)
  \/ \E i \in 1..MaxSockets : WsClose(i)
  \/ \E i \in 1..MaxSockets : ReconnectFires(i)
  \/ HeartbeatFires
  \/ SolanaCleanup
  \/ RpcCall

\* the provider's createWallet beside initialize() and the RPC calls
ProvisionNext ==
  \/ SolanaInitialize
  \/ \E ok \in BOOLEAN : ProbeAnswer(ok)
  \/ \E i \in 1..MaxSockets : WsOpen(i)
  \/ \E i \in 1..MaxSockets : WsError(i)
  \/ RpcCall
  \/ \E lookup \in TokenLookups, creation \in AccountCreations : SolanaCreateWallet(lookup, creation)

\* ========================================================= TradeService ==
\* TradeService.js uses quickNodeService and transactionQueue and imports
\* neither: the names resolve only if the host has put them in the global
\* scope ("bound"); otherwise evaluating them throws a ReferenceError.
TradeScopes == {"unbound", "bound"}

\* validateTradeParams(params): "" when params pass
validateTradeParams(params) ==
  IF params.network = "" \/ params.action = "" THEN "Missing required parameters"
  ELSE IF params.action \notin {"buy", "sell"} THEN "Invalid action"
  ELSE IF params.network \notin {"ethereum", "base", "solana"} THEN "Invalid network"
  ELSE ""

\* executeTrade before it reaches the queue: "" when it gets there.  sim
\* is validationResult.success of the dry run.  buildEvmTransaction
\* returns the undeclared name tx.
TradeRejects(scope, params, sim) ==
  IF validateTradeParams(params) # "" THEN validateTradeParams(params)
  ELSE IF scope = "unbound" THEN "ReferenceError"       \* quickNodeService
  ELSE IF ~sim THEN "Trade validation failed"
  ELSE IF params.network # "solana" THEN "ReferenceError"   \* tx is not defined
  ELSE ""

TradeParams ==
  {[network |-> n, action |-> a] : n \in {"solana", "ethereum", "polygon"}, a \in {"buy", "hold"}}

\* executeTrade(params): the transaction goes to transactionQueue with
\* priority 2
ExecuteTrade(params, sim) ==
  LET k == Len(calls) + 1
      why == TradeRejects(tradeScope, params, sim)
  IN
  \/ /\ why # ""
     /\ tradeResult' = why
     /\ UNCHANGED <<tradeScope, directInFlight, breakerVars, solanaVars, queueVars, cipherVars,
                    walletVars>>
  \/ /\ why = ""
     /\ AddTransaction(Tx(k, params.action, params.network, 1 + (k % 2), {2}, {}))

\* the swaps arguments of executeMultipleSwaps: lists of networks
SwapLists == UNION {[1..k -> {"solana", "ethereum"}] : k \in 0..MaxSwaps}

\* executeMultipleSwaps(swaps) up to the await of the sends: "sending" when
\* it got that far.  built: the build and prepare stages resolved.
executeMultipleSwaps(scope, swaps, built) ==
  IF \E i \in DOMAIN swaps : swaps[i] # "solana" THEN "Multiple swaps only supported on Solana"
  ELSE IF Len(swaps) = 0 THEN "returned"              \* Promise.all([]) three times
  ELSE IF scope = "unbound" THEN "ReferenceError"     \* in buildSolanaTransaction
  ELSE IF ~built THEN "build failed"
  ELSE "sending"

\* smartTxns.map(tx => quickNodeService.sendSmartTransaction(tx)): every
\* send of the bundle is started before the first one is awaited
ExecuteMultipleSwaps(swaps, built) ==
  /\ directInFlight = {}
  /\ tradeResult' = executeMultipleSwaps(tradeScope, swaps, built)
  /\ directInFlight' = IF tradeResult' = "sending" THEN 1..Len(swaps) ELSE {}
  /\ UNCHANGED <<tradeScope, breakerVars, solanaVars, queueVars, cipherVars, walletVars>>

\* one sendSmartTransaction of the bundle settles; Promise.all rejects with
\* the first failure and resolves after the last success
SwapSettles(i, ok) ==
  /\ i \in directInFlight
  /\ directInFlight' = directInFlight \ {i}
  /\ tradeResult' = IF ~ok \/ tradeResult = "bundle failed" THEN "bundle failed"
                    ELSE IF directInFlight' = {} THEN "returned"
                    ELSE tradeResult
  /\ UNCHANGED <<tradeScope, breakerVars, solanaVars, queueVars, cipherVars, walletVars>>

TradeAtRest ==
  /\ tradeScope = "unbound"
  /\ directInFlight = {}
  /\ tradeResult = "none"

InfraAtRest == BreakerInit /\ SolanaInit /\ TradeAtRest

\* a component that a specification leaves alone: the cipher with the key
\* configured, the wallet service before initialize() over an empty
\* collection
CipherAtRest ==
  /\ encKey = "k1"
  /\ plainIn = NullV
  /\ cipherText = NullCt
  /\ encOut = ReturnedCt(NullCt)
  /\ decOut = Returned(NullV)
  /\ cipherPc = "idle"
  /\ cipherOps = 0

WalletAtRest ==
  /\ isInitialized = FALSE
  /\ usersDb = {}
  /\ userDocs = {}
  /\ walletCache = {}
  /\ walletEvents = {}
  /\ walletCount = [n \in Networks |-> 0]
  /\ lastCall = NoCall
  /\ autonomyCall = NoAutonomyCall
  /\ autonomyGranted = {}
  /\ HealthAtRest
  /\ metricsDown = FALSE
  /\ walletClock = 0
  /\ lastSweep = -1

QueueOnlyInit == QueueInit /\ CipherAtRest /\ WalletAtRest /\ InfraAtRest
CipherOnlyInit == QueueInit /\ CipherInit /\ WalletAtRest /\ InfraAtRest
WalletOnlyInit == QueueInit /\ CipherInit /\ WalletInit /\ InfraAtRest

QueueSpec == QueueOnlyInit /\ [][QueueNext]_vars

\* the balance re-check of processTransaction, under trades with and
\* without an estimatedGas field and wallets with and without funds
GasNext ==
  \/ /\ Len(calls) < MaxTx
     /\ \E tx \in GasTxInputs(Len(calls) + 1) : AddTransaction(tx)
  \/ \E n \in Networks : \E id \in running[n] :
       \E a \in GasAnswers : TaskSettle(n, id, a[1], a[2], a[3])
  \/ \E n \in Networks : IntervalTick(n)

GasSpec == QueueOnlyInit /\ [][GasNext]_vars

\* the queue under narrower workloads (one priority on two networks, every
\* priority on one network), every operation and task outcome included
SerialNext ==
  \/ /\ Len(calls) < MaxTx
     /\ \E tx \in SerialTxInputs(Len(calls) + 1) : AddTransaction(tx)
  \/ \E n \in Networks : \E id \in running[n] :
       \E a \in ProcAnswers : TaskSettle(n, id, a[1], a[2], a[3])
  \/ \E n \in Networks : IntervalTick(n)
  \/ \E n \in {"ethereum", "solana"} : PauseNetwork(n)
  \/ \E n \in {"ethereum", "solana"} : ResumeNetwork(n)
  \/ Cleanup

SerialSpec == QueueOnlyInit /\ [][SerialNext]_vars

OrderNext ==
  \/ /\ Len(calls) < MaxTx
     /\ \E tx \in OrderTxInputs(Len(calls) + 1) : AddTransaction(tx)
  \/ \E n \in Networks : \E id \in running[n] :
       \E a \in ProcAnswers : TaskSettle(n, id, a[1], a[2], a[3])
  \/ \E n \in Networks : IntervalTick(n)
  \/ PauseNetwork("solana")
  \/ ResumeNetwork("solana")
  \/ Cleanup

OrderSpec == QueueOnlyInit /\ [][OrderNext]_vars

\* two networks and two priorities, for pausing one network while the
\* other one works
PauseNext ==
  \/ /\ Len(calls) < MaxTx
     /\ \E tx \in PauseTxInputs(Len(calls) + 1) : AddTransaction(tx)
  \/ \E n \in Networks : \E id \in running[n] :
       \E a \in PauseAnswers : TaskSettle(n, id, a[1], a[2], a[3])
  \/ \E n \in Networks : IntervalTick(n)
  \/ PauseNetwork("solana")
  \/ ResumeNetwork("solana")
  \/ Cleanup

PauseSpec == QueueOnlyInit /\ [][PauseNext]_vars

\* the gas-price refresh beside a queue at work: trades on one network,
\* the refresh ticks, getQueueStatus and cleanup
RefreshTxInputs(k) == ValidTx(k, {"solana"}, {{}}, {{}})

RefreshNext ==
  \/ /\ Len(calls) < MaxTx
     /\ \E tx \in RefreshTxInputs(Len(calls) + 1) : AddTransaction(tx)
  \/ \E n \in Networks : \E id \in running[n] :
       \E a \in PauseAnswers : TaskSettle(n, id, a[1], a[2], a[3])
  \/ \E n \in Networks : IntervalTick(n)
  \/ UpdateGasPrices
  \/ \E answer \in {"live", "default", "throw"} : GasPriceSettles(answer)
  \/ \E n \in {"ethereum", "solana"} : GetQueueStatus(n)
  \/ Cleanup

RefreshSpec == QueueOnlyInit /\ [][RefreshNext]_vars

\* the gas-price snapshots alone: the refresh ticks with every provider
\* outcome, getQueueStatus on every network, cleanup
SnapshotNext ==
  \/ UpdateGasPrices
  \/ \E answer \in {"live", "default", "throw"} : GasPriceSettles(answer)
  \/ \E n \in Networks : GetQueueStatus(n)
  \/ Cleanup

SnapshotSpec == QueueOnlyInit /\ [][SnapshotNext]_vars

\* callers that hand out ids with no care: the k-th call carries a new id
\* or one used before, on a well-formed trade, on one without a type and
\* on one for a network that has no queue
ReuseTxInputs(k) ==
  {[tx EXCEPT !.id = i] :
     tx \in ValidTx(k, {"solana"}, {{}}, {{}})
             \cup {Tx(k, "", "solana", 1, {}, {}), Tx(k, "buy", "polygon", 1, {}, {})},
     i \in 1..k}

ReuseNext ==
  \/ /\ Len(calls) < MaxTx
     /\ \E tx \in ReuseTxInputs(Len(calls) + 1) : AddTransaction(tx)
  \/ \E n \in Networks : \E id \in running[n] :
       \E a \in PauseAnswers : TaskSettle(n, id, a[1], a[2], a[3])
  \/ \E n \in Networks : IntervalTick(n)
  \/ Cleanup

ReuseSpec == QueueOnlyInit /\ [][ReuseNext]_vars

\* the trade layer over the queue: single trades, bundles of swaps and the
\* queue's tasks
TradeInit ==
  /\ QueueInit /\ CipherAtRest /\ WalletAtRest /\ BreakerInit /\ SolanaInit
  /\ tradeScope \in TradeScopes
  /\ directInFlight = {}
  /\ tradeResult = "none"

TradeNext ==
  \/ /\ Len(calls) < MaxTx
     /\ \E params \in TradeParams, sim \in BOOLEAN : ExecuteTrade(params, sim)
  \/ \E swaps \in SwapLists, built \in BOOLEAN : ExecuteMultipleSwaps(swaps, built)
  \/ \E i \in 1..MaxSwaps, ok \in BOOLEAN : SwapSettles(i, ok)
  \/ \E n \in Networks : \E id \in running[n] :
       \E a \in PauseAnswers : TaskSettle(n, id, a[1], a[2], a[3])
  \/ \E n \in Networks : IntervalTick(n)

TradeSpec == TradeInit /\ [][TradeNext]_vars

CipherSpec == CipherOnlyInit /\ [][CipherNext]_vars

WalletSpec == WalletOnlyInit /\ [][WalletNext]_vars

\* deleteWallet and the autonomy flag, over a collection that holds three
\* wallets of two users on two networks, one of them with a corrupt key field
CustodyRecords == {r \in PriorRecords : r.address \in {"A1", "A3", "A4"}}
CustodyNetworks == {"ethereum", "base"}
CustodyAddresses == {"A1", "A3", "A4"}

CustodyInit ==
  /\ QueueInit /\ CipherAtRest /\ InfraAtRest
  /\ isInitialized = FALSE
  /\ usersDb = CustodyRecords
  /\ userDocs = Users
  /\ walletCache = {}
  /\ walletEvents = {}
  /\ walletCount = [n \in Networks |-> 0]
  /\ lastCall = NoCall
  /\ autonomyCall = NoAutonomyCall
  /\ autonomyGranted = {}
  /\ HealthAtRest
  /\ metricsDown = FALSE
  /\ walletClock = 0
  /\ lastSweep = -1

CustodyNext ==
  \/ InitializeWallets(AllOk)
  \/ \E u \in Users, a \in CustodyAddresses : GetWallet(u, a)
  \/ \E u \in Users, n \in CustodyNetworks, a \in CustodyAddresses : DeleteWallet(u, n, a)
  \/ \E u \in Users, a \in CustodyAddresses : SetAutonomousBegin(u, a)
  \/ SetAutonomousUpdate
  \/ \E u \in Users, n \in CustodyNetworks, a \in CustodyAddresses : IsAutonomousWallet(u, n, a)

CustodySpec == CustodyInit /\ [][CustodyNext]_vars

\* every operation of the service that touches the collection or decrypts
\* from it
StoreNext ==
  \/ CustodyNext
  \/ \E u \in Users, n \in CustodyNetworks : CreateWallet(u, n, "A9", 1)

StoreSpec == CustodyInit /\ [][StoreNext]_vars

\* initialize() called again and again, and by getWallet, with a database
\* that connects or does not
StartupNext ==
  \/ InitializeCall
  \/ \E dbOk \in BOOLEAN : InitializeSettles(dbOk)
  \/ \E u \in Users, a \in CustodyAddresses, dbOk \in BOOLEAN : GetWalletVia(u, a, dbOk)
  \/ \E u \in Users, n \in CustodyNetworks, a \in CustodyAddresses : DeleteWallet(u, n, a)

StartupSpec == CustodyInit /\ [][StartupNext]_vars

\* the cache over time: lookups, deletions, the clock and the sweep
CacheNext ==
  \/ InitializeWallets(AllOk)
  \/ \E u \in Users, a \in CustodyAddresses : GetWallet(u, a)
  \/ \E u \in Users, n \in CustodyNetworks, a \in CustodyAddresses : DeleteWallet(u, n, a)
  \/ TimePasses
  \/ CacheSweep

CacheSpec == CustodyInit /\ [][CacheNext]_vars

\* initialize() and checkHealth() with providers that may fail
HealthNext ==
  \/ \E o \in [Networks -> ProviderOutcomes] : InitializeWallets(o)
  \/ \E n \in Networks, ok \in BOOLEAN : ProviderSettlesLate(n, ok)
  \/ \E answers \in [Networks -> HealthAnswers] : CheckHealth(answers)

HealthSpec == QueueOnlyInit /\ [][HealthNext]_vars

BreakerSpec == QueueOnlyInit /\ [][BreakerNext]_vars

SolanaSpec == QueueOnlyInit /\ [][SolanaNext]_vars

ProvisionSpec == QueueOnlyInit /\ [][ProvisionNext]_vars

\* ------------------------------------------------------- queue claims --
\* the k-th call passed validation and was handed to a PQueue
Accepted(k) ==
  /\ k \in 1..Len(calls)
  /\ validateTransaction(calls[k]) = <<>>
  /\ calls[k].network \in Networks

Queued(k) == \E n \in Networks : \E i \in 1..Len(queue[n]) : queue[n][i].id = k
Running(k) == \E n \in Networks : k \in running[n]

\* C1: for every network, at most one processTransaction task is started
\* and not yet settled, whatever the interleaving of addTransaction calls
C1_AtMostOneInFlight == \A n \in Networks : Cardinality(running[n]) <= 1

\* C1 witness: calls of two users on one network, one in flight, one waiting
C1_Witness ==
  \E n \in Networks : \E a \in running[n] : \E i \in 1..Len(queue[n]) :
    calls[a].userId # calls[queue[n][i].id].userId

\* C2 (as claimed): an accepted transaction whose promise has not settled
\* is still waiting in its queue or in flight, so that it can still reach
\* a terminal status; none is dropped, cleanup() included
C2_NoSilentDrop ==
  \A k \in 1..MaxTx : (Accepted(k) /\ promise[k] = "unsettled") => (Queued(k) \/ Running(k))

\* a message that is a non-empty string
NonEmptyMessage(m) == m # <<>> /\ m # <<NullV>>

C4_InsufficientBalanceFails ==
  \A k \in 1..MaxTx :
    (Accepted(k) /\ \E b \in balanceRead[k] : b < calls[k].cost) =>
      /\ promise[k] = "rejected"
      /\ pendingTransactions[k].status = "failed"
      /\ pendingTransactions[k].error = WrapProcessing(MsgInsufficient)
      /\ k \notin submitted

\* the priority and the enqueue order the claim speaks of
ClaimedBefore(a, b) ==
  LET pa == IF calls[a].priority = {} THEN 0 ELSE CHOOSE p \in calls[a].priority : TRUE
      pb == IF calls[b].priority = {} THEN 0 ELSE CHOOSE p \in calls[b].priority : TRUE
  IN pa > pb \/ (pa = pb /\ a < b)

\* C5: a task that starts is alone in flight on its network and comes
\* before every transaction left waiting there: higher priority first
\* (missing priority is 0), equal priorities in enqueue order
C5_StartsInPriorityOrder ==
  [][\A n \in Networks : \A k \in running'[n] \ running[n] :
       /\ running'[n] = {k}
       /\ \A i \in 1..Len(queue'[n]) : ClaimedBefore(k, queue'[n][i].id)]_vars

\* C5 witness: the last call, of priority 1, was started ahead of two
\* earlier ones, and of these the one without priority waits ahead of the
\* one of priority -1 enqueued before it
C5_Witness ==
  \E n \in Networks : \E k \in running[n] :
    /\ Len(queue[n]) = 2
    /\ queue[n][2].id < queue[n][1].id /\ queue[n][1].id < k
    /\ calls[queue[n][1].id].priority = {}
    /\ calls[queue[n][2].id].priority = {-1}

\* C6 (as claimed): a call with a missing field is rejected as invalid, a
\* call for a network without a registered queue as unsupported; either
\* way no pending record exists for it and nothing is enqueued
C6_RejectedLeavesNoTrace ==
  \A k \in 1..Len(calls) :
    LET tx == calls[k] IN
    (tx.id = 0 \/ tx.type = "" \/ tx.network = "" \/ tx.userId = 0 \/ tx.network \notin Networks) =>
      /\ promise[k] = "rejected"
      /\ tx.id # 0 => pendingTransactions[tx.id].status = "absent"
      /\ ~Queued(tx.id) /\ ~Running(tx.id)

\* C27 (as claimed): once cleanup() has been called no refresh tick runs
\* and nothing writes a gas-price snapshot any more; the transactions
\* waiting at the time of cleanup() are dropped from their queues, the ones
\* in flight stay in flight and settle their promise when their task ends
C27_CleanupStopsPeriodicTasks ==
  [][/\ queueCleaned =>
          /\ gasTicks' = gasTicks /\ gasCalls' = gasCalls
          /\ \A n \in Networks : gasPrices'[n] = NoSnapshot
     /\ (queueCleaned' /\ ~queueCleaned) =>
          /\ \A n \in Networks : queue'[n] = <<>> /\ running'[n] = running[n]
          /\ promise' = promise
     /\ queueCleaned =>
          \A k \in 1..MaxTx : (Running(k) /\ ~Running(k)') => promise'[k] \in {"resolved", "rejected"}]_vars

\* C28: in every turn of a refresh tick the network at hand gets a snapshot
\* stamped with the time of the tick, unavailable when its provider threw and
\* the provider's price otherwise, no other network's snapshot changes, and
\* the tick goes on to the next network without throwing; a tick that ends
\* has asked every provider.  getQueueStatus(n) answers with the price of
\* the stored snapshot of n, unavailable when there is none, calls no
\* provider and changes no snapshot.
C28_RefreshPerNetwork ==
  [][/\ (gasAt > 0 /\ gasAt' # gasAt) =>
          LET n == GasOrder[gasAt] IN
          /\ gasAnswers'[n].tick = gasTicks
          /\ gasPrices'[n].timestamp = gasTicks
          /\ gasPrices'[n].price = IF gasAnswers'[n].answer = "throw" THEN "unavailable"
                                   ELSE gasAnswers'[n].answer
          /\ \A m \in Networks \ {n} : gasPrices'[m] = gasPrices[m]
          /\ gasOutcome' # "threw"
          /\ gasAt' = IF gasAt = Len(GasOrder) THEN 0 ELSE gasAt + 1
          /\ gasAt' = 0 => (gasOutcome' = "done" /\ \A m \in Networks : gasAnswers'[m].tick = gasTicks)
     /\ queueStatus' # queueStatus =>
          LET n == queueStatus'.network IN
          /\ queueStatus'.gasPrice = IF gasPrices[n] = NoSnapshot THEN "unavailable"
                                     ELSE gasPrices[n].price
          /\ UNCHANGED <<gasPrices, gasCalls, gasAt, gasTicks, gasAnswers>>]_vars

\* the second tick is under way: the provider of ethereum threw and base
\* was refreshed, solana still has the snapshot of the first tick, and that
\* is what getQueueStatus served
C28_Witness ==
  /\ gasTicks = 2 /\ gasAt = 3
  /\ gasAnswers["ethereum"] = [answer |-> "throw", tick |-> 2]
  /\ gasPrices["ethereum"] = [price |-> "unavailable", timestamp |-> 2]
  /\ gasPrices["base"] = [price |-> "live", timestamp |-> 2]
  /\ gasPrices["solana"] = [price |-> "default", timestamp |-> 1]
  /\ queueStatus = [network |-> "solana", pending |-> 0, size |-> 0, gasPrice |-> "default"]

\* C31: the status of a record only moves from pending to complete or to
\* failed.  A record that is complete or failed keeps its status, and a
\* pending record stays in the map, until cleanup() empties the map.
C31_StatusOnlyMovesForward ==
  [][LET emptied == pendingTransactions' = [i \in 1..MaxTx |-> NoRecord] IN
     \A i \in 1..MaxTx :
       LET before == pendingTransactions[i].status
           after == pendingTransactions'[i].status
       IN /\ before \in {"complete", "failed"} => (after = before \/ emptied)
          /\ before = "pending" => (after \in {"pending", "complete", "failed"} \/ emptied)]_vars

\* C36: the step of an addTransaction call that validation rejects leaves
\* the pending map as it was: no record is added and no record changes.
C36_RejectedCallLeavesMap ==
  [][(Len(calls') = Len(calls) + 1 /\ validateTransaction(calls'[Len(calls')]) # <<>>) =>
       pendingTransactions' = pendingTransactions]_vars

\* no two addTransaction calls carried the same id
UniqueIds ==
  \A i, j \in 1..Len(calls) : (i # j /\ calls[i].id # 0) => calls[i].id # calls[j].id

\* the ids of the records of network n in the pending map whose status is
\* pending
PendingRecords(n) ==
  {id \in DOMAIN pendingTransactions :
     /\ pendingTransactions[id].status = "pending"
     /\ \E i \in 1..Len(calls) : calls[i].id = id /\ calls[i].network = n}

\* C38: for every network, while cleanup() has not been called and ids are
\* unique, the pending map holds as many pending records of the network as
\* the network's queue holds tasks, waiting and executing together
C38_PendingMatchesQueue ==
  \A n \in Networks :
    (~queueCleaned /\ UniqueIds) =>
      Cardinality(PendingRecords(n)) = Len(queue[n]) + Cardinality(running[n])

\* a network with a task executing and one waiting after an earlier one of
\* its tasks has settled
C38_Witness ==
  /\ ~queueCleaned /\ UniqueIds
  /\ \E n \in Networks :
       /\ Len(queue[n]) >= 1 /\ Cardinality(running[n]) = 1
       /\ \E i \in 1..Len(calls) :
            /\ calls[i].network = n /\ calls[i].id \in DOMAIN pendingTransactions
            /\ pendingTransactions[calls[i].id].status \in {"complete", "failed"}

\* ------------------------------------------------------ cipher claims --
\* C8 (as claimed): with the key configured, decrypt(encrypt(x)) = x for
\* every non-null x, the empty string included
C8_RoundTrip ==
  (cipherPc = "roundtrip" /\ encKey # "" /\ plainIn # NullV) => decOut = Returned(plainIn)

\* C9 (as claimed): with the key configured, decrypt of a non-null value
\* that encrypt did not produce under the current key throws the
\* decryption error and returns nothing
C9_GarbageFails ==
  (cipherPc = "foreign" /\ encKey # "" /\ cipherText.kind # "null") => decOut = Thrown(MsgDecrypt)

\* ------------------------------------------------------ wallet claims --
\* C7 (as claimed): on an initialized service with the key configured,
\* createWallet(u, n) for a supported network returns a wallet, and
\* getWallet(u, w.address) right after it returns that wallet: same
\* address, network n, the private key and mnemonic createWallet returned
C7_CreateThenGet ==
  (lastCall.op = "createWallet" /\ lastCall.ready /\ encKey # "" /\ lastCall.network \in Networks) =>
    /\ lastCall.res.tag = "return"
    /\ getWallet(userDocs, usersDb, walletCache, encKey, lastCall.user, lastCall.res.wallet.address)
         = {CallResult("return", TRUE, lastCall.res.wallet, <<>>)}

\* a stored field that is present and is no ciphertext of the current key
Undecryptable(c) == c.kind \notin {"null", "empty"} /\ ~(c.kind = "aes" /\ c.key = encKey)

\* C10 (as claimed): with the key configured, getWallet on a record whose
\* private key or mnemonic cannot be decrypted throws the decryption
\* failure, returns no wallet and leaves no cache entry for it
C10_NoUndecryptedWallet ==
  (/\ lastCall.op = "getWallet" /\ encKey # ""
   /\ \E r \in usersDb : /\ r.user = lastCall.user /\ r.address = lastCall.address
                         /\ Undecryptable(r.encryptedPrivateKey) \/ Undecryptable(r.encryptedMnemonic))
  => /\ lastCall.res = CallResult("throw", FALSE, NoWallet, MsgDecryptWallet)
     /\ ~\E e \in walletCache : e.key = CacheKeySet(lastCall.user, lastCall.address)

\* C11 (as claimed): getWallet(u, a) returns null and throws nothing when
\* no user record exists for u, and when u exists but owns no wallet with
\* address a on any network
C11_NotFoundIsNull ==
  (/\ lastCall.op = "getWallet"
   /\ lastCall.user \notin userDocs \/ ~HasMatch(usersDb, lastCall.user, lastCall.address))
  => lastCall.res = CallResult("return", FALSE, NoWallet, <<>>)

\* C12 (as claimed): on an initialized service, createWallet(u, n) for a
\* network without a registered provider fails with the unsupported-network
\* error of getProvider, and that call persists nothing, counts nothing,
\* caches nothing and emits nothing
C12_UnsupportedNetworkFails ==
  [][(/\ lastCall' # lastCall /\ lastCall'.op = "createWallet" /\ lastCall'.ready
      /\ lastCall'.network \notin WalletProviders)
     => /\ lastCall'.res = CallResult("throw", FALSE, NoWallet, MsgUnsupportedNetwork(lastCall'.network))
        /\ UNCHANGED <<userDocs, usersDb, walletCount, walletCache, walletEvents>>]_vars

\* C13: on an initialized service, deleteWallet(u, n, a) returns true
\* exactly when the collection held the wallet (u, n, a).  In that case the
\* record is gone, no cache entry for (u, a) is left, walletDeleted was
\* emitted and getWallet(u, a) now gives the not-found result; otherwise
\* the collection, the cache and the events are as before.
C13_DeleteRemovesEvictsEmits ==
  [][(lastCall' # lastCall /\ lastCall'.op = "deleteWallet" /\ lastCall'.ready) =>
     LET u == lastCall'.user
         n == lastCall'.network
         a == lastCall'.address
         held == {r \in usersDb : r.user = u /\ r.network = n /\ r.address = a}
     IN /\ lastCall'.res.tag = "return"
        /\ lastCall'.value = (held # {})
        /\ held # {} =>
             /\ usersDb' = usersDb \ held
             /\ ~\E e \in walletCache' : e.key = CacheKeySet(u, a)
             /\ \A e \in walletCache : e.key # CacheKeySet(u, a) => e \in walletCache'
             /\ walletEvents' = walletEvents \cup {<<"walletDeleted", a, n, u>>}
             /\ getWallet(userDocs', usersDb', walletCache', encKey, u, a)
                  = {CallResult("return", FALSE, NoWallet, <<>>)}
        /\ held = {} => UNCHANGED <<usersDb, walletCache, walletEvents>>]_vars

\* a wallet that getWallet had cached was deleted; another one is still cached
C13_Witness ==
  /\ lastCall.op = "deleteWallet" /\ lastCall.ready /\ lastCall.value
  /\ <<"walletDeleted", lastCall.address, lastCall.network, lastCall.user>> \in walletEvents
  /\ ~\E r \in usersDb : r.address = lastCall.address
  /\ walletCache # {}
  /\ ~\E e \in walletCache : e.key = CacheKeySet(lastCall.user, lastCall.address)

C15_HealthReportComplete ==
  [][(lastCall'.op = "checkHealth" /\ (lastCall' # lastCall \/ probeVars' # probeVars)) =>
     /\ lastCall'.res.tag = "return"
     /\ {healthProbed'[i] : i \in 1..Len(healthProbed')} = walletProviders
     /\ Len(healthReport') = Cardinality(walletProviders)
     /\ \A n \in walletProviders :
          \E i \in 1..Len(healthReport') :
            /\ healthReport'[i].network = n
            /\ \A j \in 1..Len(healthReport') : healthReport'[j].network = n => j = i
            /\ IF healthAnswers'[n] = "ok"
                 THEN healthReport'[i].status = "healthy"
                 ELSE /\ healthReport'[i].status = "unhealthy"
                      /\ healthReport'[i].error = <<healthAnswers'[n]>>]_vars

\* the first provider fails its health check, the other two answer
C15_Witness ==
  /\ lastCall.op = "checkHealth" /\ walletProviders = Networks
  /\ healthAnswers["ethereum"] # "ok"
  /\ healthAnswers["base"] = "ok" /\ healthAnswers["solana"] = "ok"
  /\ Len(healthReport) = 3 /\ healthReport[3].status = "healthy"

\* the providers whose initialize() did not resolve within initialize()
InitFailed == {n \in Networks : initOutcomes[n] \in {"error", "timeout"}}

\* C16: when exactly one provider fails or times out under initialize(),
\* initialize() returns true, the service is initialized, the other two
\* providers are initialized, and the log names two providers as
\* initialized and the third as failed
C16_PartialInitCompletes ==
  Cardinality(InitFailed) = 1 =>
    /\ initReturn = "true" /\ isInitialized
    /\ \A n \in Networks \ InitFailed : providerState[n] = "initialized"
    /\ {l[2] : l \in {e \in initLog : e[1] = "initialized"}} = Networks \ InitFailed
    /\ {l[2] : l \in {e \in initLog : e[1] = "failed to initialize"}} = InitFailed

\* solana ran into the timeout, ethereum and base initialized
C16_Witness ==
  /\ initOutcomes = [AllOk EXCEPT !["solana"] = "timeout"]
  /\ isInitialized /\ providerState["solana"] = "pending"
  /\ <<"failed to initialize", "solana">> \in initLog

\* C21 (as claimed): whenever the cache holds a wallet that createWallet
\* made, or walletCreated was emitted for it, its record is in the
\* collection.  No call of createWallet gets past the provider call (see
\* C7), so no reachable state holds such a wallet or event.
C21_RecordBeforeCacheAndEvent ==
  \A u \in Users, a \in {"A9"} :
    ((\E e \in walletCache : e.key = CacheKeySet(u, a)) \/ <<"walletCreated", a>> \in walletEvents)
      => \E r \in usersDb : r.user = u /\ r.address = a

\* C22 (as claimed): a createWallet call on an initialized service, for a
\* network with a provider and with the key configured, whose wallet-count
\* increment fails, still succeeds: the record is in the collection, the
\* call returns the wallet, the cache holds it and walletCreated was emitted
C22_TallyFailureNotFatal ==
  [][(/\ lastCall' # lastCall /\ lastCall'.op = "createWallet" /\ lastCall'.ready
      /\ lastCall'.network \in WalletProviders /\ encKey # "" /\ metricsDown)
     => /\ lastCall'.res.tag = "return" /\ lastCall'.res.found
        /\ \E r \in usersDb' : r.user = lastCall'.user /\ r.address = lastCall'.res.wallet.address
        /\ \E e \in walletCache' : e.key = CacheKeySet(lastCall'.user, lastCall'.res.wallet.address)
        /\ <<"walletCreated", lastCall'.res.wallet.address>> \in walletEvents']_vars

\* C32: a run of the cache sweep leaves no entry in the cache that is older
\* than the cache lifetime; and a deleteWallet that removed a record leaves
\* no entry for its wallet.
C32_ExpiredEntriesEvicted ==
  [][/\ lastSweep' # lastSweep =>
          \A e \in walletCache' : walletClock' - e.timestamp <= CacheTtl
     /\ (lastCall' # lastCall /\ lastCall'.op = "deleteWallet" /\ lastCall'.value) =>
          ~\E e \in walletCache' : e.key = CacheKeySet(lastCall'.user, lastCall'.address)]_vars

\* C33 (as claimed): getWallet is cache-first. While the cache holds an
\* entry for (user, address) younger than the cache lifetime, getWallet
\* returns that entry's wallet and needs neither the collection nor the
\* Cipher for it (it answers the same with the collection empty); and a
\* getWallet that had to load and decrypt the wallet leaves it in the cache
\* under the key the next getWallet of that wallet looks up
C33_CacheFirst ==
  /\ \A u \in Users, a \in CustodyAddresses : \A e \in walletCache :
       (e.key = CacheKeySet(u, a) /\ walletClock - e.timestamp < CacheTtl) =>
         getWallet({}, {}, walletCache, encKey, u, a) = {CallResult("return", TRUE, e.data, <<>>)}
  /\ (lastCall.op = "getWallet" /\ lastCall.res.found) =>
       \E e \in walletCache : /\ e.key = CacheKeyGet(lastCall.user, lastCall.address)
                              /\ e.data = lastCall.res.wallet

\* C34 (as claimed): setAutonomousWallet toggles the flag of the persisted
\* record: a call that returns on a wallet whose flag is off leaves it on,
\* one on a wallet whose flag is on leaves it off; and when the user holds
\* no wallet with that address when the call starts, it throws "Wallet not
\* found" and the collection is unchanged
C34_SetAutonomousToggles ==
  [][(lastCall' # lastCall /\ lastCall'.op = "setAutonomousWallet" /\ lastCall'.ready) =>
       /\ lastCall'.value =>
            \A r \in usersDb :
              (r.user = lastCall'.user /\ r.network = lastCall'.network
                 /\ r.address = lastCall'.address) =>
                [r EXCEPT !.isAutonomous = ~r.isAutonomous] \in usersDb'
       /\ (autonomyCall = NoAutonomyCall /\ lastCall'.user \in userDocs
             /\ ~HasMatch(usersDb, lastCall'.user, lastCall'.address)) =>
            /\ lastCall'.res = CallResult("throw", FALSE, NoWallet, MsgWalletNotFound)
            /\ usersDb' = usersDb]_vars

\* what encrypt returns: an AES ciphertext made under a key, or null
IsCipherOutput(c) == c.kind = "null" \/ (c.kind = "aes" /\ c.key # "")

\* the field is what the collection held for this wallet before the service
\* started
HeldBefore(r, c) ==
  \E p \in CustodyRecords :
    /\ p.user = r.user /\ p.network = r.network /\ p.address = r.address
    /\ c \in {p.encryptedPrivateKey, p.encryptedMnemonic}

\* C35: the private key and the mnemonic of every record in the collection
\* are Cipher output or null (or the field the collection already held for
\* that wallet when the service started), never a decrypted text: nothing
\* the service decrypted is written back
C35_StoreHoldsCiphertextOnly ==
  \A r \in usersDb : \A c \in {r.encryptedPrivateKey, r.encryptedMnemonic} :
    IsCipherOutput(c) \/ HeldBefore(r, c)

\* setAutonomousWallet has decrypted a wallet, which is in the cache in
\* the clear, and has written to its record
C35_Witness ==
  /\ lastCall.op = "setAutonomousWallet" /\ lastCall.value
  /\ \E r \in usersDb, e \in walletCache :
       /\ r.user = lastCall.user /\ r.address = lastCall.address /\ r.isAutonomous
       /\ e.key = CacheKeySet(r.user, r.address)
       /\ e.data.privateKey = "pk-1"
       /\ r.encryptedPrivateKey = Aes("k1", 1, "pk-1")

\* C40: the body of WalletService.initialize() runs at most once.  Once
\* its promise has settled no call replaces it or starts another run; and
\* when it was rejected, every initialize() and every getWallet made
\* afterwards ends in the error of that run, with no provider constructed
C40_WalletInitializedOnce ==
  [][/\ initRuns' <= 1
     /\ initReturn \in {"true", "throw"} => (initReturn' = initReturn /\ initRuns' = initRuns)
     /\ (initReturn = "throw" /\ lastCall' # lastCall
           /\ lastCall'.op \in {"initialize", "getWallet"}) =>
          /\ lastCall'.res = CallResult("throw", FALSE, NoWallet, MsgDbConnect)
          /\ walletProviders' = {} /\ ~isInitialized']_vars

\* an initialize() call came back with the rejected promise of the one run
\* there was
C40_Witness ==
  /\ lastCall.op = "initialize" /\ lastCall.res.tag = "throw"
  /\ initReturn = "throw" /\ initRuns = 1

TrialsRunning(cs, name) ==
  {i \in 1..Len(cs) : cs[i].name = name /\ cs[i].status = "running" /\ cs[i].trial}

\* C17: a closed breaker has seen fewer than N consecutive failures, so
\* the N-th opens it; a call that finds the breaker open within the
\* cooldown, or half-open, is rejected and its operation is not invoked; a
\* call that finds it open after the cooldown runs as the trial; no breaker
\* ever has two trials running; a trial that succeeds leaves the breaker
\* closed with the counter at 0, a trial that fails leaves it open with the
\* cooldown started anew.
C17_BreakerTripsAndRecovers ==
  [][\A name \in BreakerNames :
      /\ breakers'[name].state = "closed" => breakers'[name].failures < BreakerThreshold
      /\ Cardinality(TrialsRunning(breakerCalls', name)) <= 1
      /\ (Len(breakerCalls') = Len(breakerCalls) + 1 /\ breakerCalls'[Len(breakerCalls')].name = name) =>
           LET c == breakerCalls'[Len(breakerCalls')]
               b == breakers[name]
           IN /\ (b.state = "open" /\ ~b.cooled) => c.status = "rejected"
              /\ b.state = "half-open" => c.status = "rejected"
              /\ (b.state = "open" /\ b.cooled) => (c.status = "running" /\ c.trial)
              /\ b.state = "closed" => (c.status = "running" /\ ~c.trial)
      /\ \A i \in TrialsRunning(breakerCalls, name) :
           /\ breakerCalls'[i].status = "succeeded" => breakers'[name] = NewBreaker
           /\ breakerCalls'[i].status = "failed" =>
                (breakers'[name].state = "open" /\ ~breakers'[name].cooled)]_vars

\* N failures opened the breaker, a call was rejected, the cooldown elapsed,
\* and of two calls arriving then one ran as the trial, succeeded and closed
\* the breaker, and the other was rejected
C17_Witness ==
  /\ Len(breakerCalls) = 5
  /\ \A i \in 1..5 : breakerCalls[i].name = "brave"
  /\ breakerCalls[1].status = "failed" /\ breakerCalls[2].status = "failed"
  /\ breakerCalls[3].status = "rejected"
  /\ breakerCalls[4].trial /\ breakerCalls[4].status = "succeeded"
  /\ breakerCalls[5].status = "rejected"
  /\ breakers["brave"] = NewBreaker

\* ------------------------------------------------------ Solana claims --
\* C18: every run of the probe tries the endpoints in the configured
\* order, all primary and then all fallback; it selects the first one that
\* answers and stops, and ends with all-endpoints-failed only after every
\* endpoint failed.  The selected endpoint changes only by an answer to a
\* running probe, and every RPC call goes to the endpoint selected at the
\* time.
C18_FirstAnsweringEndpoint ==
  [][LET configured == RpcPrimary \o RpcFallback
         n == Len(probeTried')
     IN /\ n <= Len(configured)
        /\ \A i \in 1..n : probeTried'[i].endpoint = configured[i]
        /\ \A i \in 1..(n - 1) : ~probeTried'[i].ok
        /\ probeResult' = "selected" =>
             (n > 0 /\ probeTried'[n].ok /\ rpcEndpoint' = probeTried'[n].endpoint)
        /\ probeResult' = "allFailed" => (n = Len(configured) /\ ~probeTried'[n].ok)
        /\ probeResult' = "running" => (n < Len(configured) /\ (n > 0 => ~probeTried'[n].ok))
        /\ rpcEndpoint' # rpcEndpoint => (probeAt > 0 /\ probeResult' = "selected")
        /\ rpcUsed' # rpcUsed => rpcUsed' = rpcEndpoint]_vars

\* the first endpoint failed and the second answered during initialize(),
\* and an RPC call went to the second
C18_Witness ==
  /\ probeTrigger = "init" /\ probeResult = "selected" /\ solInitialized
  /\ probeTried = <<[endpoint |-> "quiknode", ok |-> FALSE], [endpoint |-> "fallback", ok |-> TRUE]>>
  /\ rpcEndpoint = "fallback" /\ rpcUsed = "fallback"

\* C23: a failed health check starts the probe afresh over the whole
\* endpoint list; when an endpoint answers a probe started that way, the
\* provider moves to that endpoint; and a tick in which every configured
\* endpoint failed leaves the provider as it was, the health checks and the
\* process running and no probe in progress, so that the next tick probes
\* again.
C23_HealthCheckReprobes ==
  [][LET n == Len(probeTried') IN
     /\ (probeTrigger' = "health" /\ probeRuns' = probeRuns + 1) =>
          (healthChecks /\ probeAt' = 1 /\ n = 0)
     /\ (probeTrigger = "health" /\ probeAt > 0 /\ probeResult' = "selected") =>
          (probeTried'[n].ok /\ rpcEndpoint' = probeTried'[n].endpoint)
     /\ (probeTrigger = "health" /\ probeAt > 0 /\ probeResult' = "allFailed") =>
          /\ n = Len(RpcPrimary \o RpcFallback)
          /\ probeAt' = 0 /\ rpcEndpoint' = rpcEndpoint
          /\ healthChecks' /\ hostProcess' = "running"]_vars

\* C24: whenever a socket closes, after having been open or after a failed
\* connection attempt, the reconnect timer is set and the provider goes on
\* running; when the timer fires a new connection attempt is made; and an
\* attempt that opens makes its socket the current one, marks the session
\* ready and arms the heartbeat.
C24_ReconnectAfterEveryClose ==
  [][\A i \in 1..Len(sockets) :
       LET live == {"connecting", "open", "closing"} IN
       /\ (sockets[i] \in live /\ sockets'[i] \notin live) =>
            (sockets'[i] = "backoff" /\ hostProcess' = "running")
       /\ (sockets[i] = "backoff" /\ sockets'[i] # "backoff") => sockets'[i] = "connecting"
       /\ (sockets[i] = "connecting" /\ sockets'[i] # "connecting" /\ sockets'[i] \in live) =>
            (sockets'[i] = "open" /\ webSocket' = i /\ wsReady' /\ pingTimer' = "armed")]_vars

\* C25: as long as the session of an open socket lasts, a heartbeat timer
\* is pending for it, so that a ping goes out on every interval; a tick
\* that finds the socket not open sends no ping; and a tick is the only way
\* a ping or a skip comes about.
C25_HeartbeatKeepsFiring ==
  [][/\ (WebSocketIsOpen' /\ hostProcess' = "running" /\ ~solCleaned') => pingTimer' = "armed"
     /\ lastBeat' # lastBeat => pingTimer = "armed"
     /\ (pingTimer = "armed" /\ pingTimer' = "fired" /\ ~WebSocketIsOpen) => lastBeat' = "skip"]_vars

\* C26: cleanup() leaves the provider with its current socket no longer
\* open, no heartbeat timer pending and the health checks off; and the
\* socket cleanup() is closing stays closed for good: its close sets no
\* reconnect timer.
C26_CleanupReleasesEverything ==
  [][/\ (~solCleaned /\ solCleaned') =>
          (~WebSocketIsOpen' /\ pingTimer' # "armed" /\ ~healthChecks')
     /\ \A i \in 1..Len(sockets) :
          (sockets[i] = "closing" /\ sockets'[i] # "closing") => sockets'[i] = "dead"]_vars

\* C39 (as claimed): a provider never has more than one WebSocket open or
\* being opened, whatever the order of open, error and close events,
\* reconnect timers, initialize() calls and cleanup()
C39_OneSocketPerProvider ==
  Cardinality({i \in 1..Len(sockets) : sockets[i] \in {"connecting", "open"}}) <= 1

\* C29: whatever becomes of the token-account lookup and of the
\* account-creating transaction, a createWallet() of a provider that has an
\* endpoint selected ends by returning the generated wallet.
C29_ProvisioningBestEffort ==
  (solCreate.tag # "none" /\ solCreate.endpoint # "") =>
    (solCreate.tag = "return" /\ solCreate.address # "")

\* C30: the provider is initialized exactly when initialize() has started
\* the health checks, and it has started them once.  From then on no step,
\* and no initialize() call in particular, starts the work of initialize()
\* again: no further task gets past the initialized check, no further
\* socket is set up, the health checks are not started again and the
\* provider stays initialized; a call made then starts no probe either.  A
\* call made while an initialize task is running only waits behind it.
C30_InitializeOnce ==
  [][/\ healthStarts' = (IF solInitialized' THEN 1 ELSE 0)
     /\ solInitialized =>
          /\ solInitialized'
          /\ initStarts' = initStarts
          /\ Len(sockets') = Len(sockets)
          /\ healthStarts' = healthStarts
          /\ (initCalls' # initCalls \/ initWaiting' # initWaiting) =>
               UNCHANGED <<probeAt, probeTrigger, probeTried, probeResult, probeRuns, rpcEndpoint,
                           initTask, sockets, webSocket, wsReady, pingTimer, healthChecks>>
     /\ (initTask # "idle" /\ initCalls' = initCalls + 1) =>
          (initWaiting' = initWaiting + 1 /\ initStarts' = initStarts /\ initTask' = initTask)]_vars

\* three initialize() calls have been made and all three tasks have run;
\* one of them did the work
C30_Witness ==
  /\ solInitialized /\ initCalls = 3 /\ initWaiting = 0 /\ initTask = "idle"
  /\ initStarts = 1 /\ healthStarts = 1 /\ Len(sockets) = 1

\* C19: while network n is paused none of its waiting transactions is
\* started, and a transaction added to it waits with a pending record and
\* an unsettled promise; pausing or resuming n changes nothing on any
\* other network, and a network that is not paused never sits idle with a
\* transaction waiting: something is in flight there or the interval cap
\* is used up.  When n is resumed with nothing in flight and the interval
\* open, the head of its queue is started, and it comes before every
\* transaction still waiting (higher priority first, then enqueue order).
C19_PauseHoldsOneNetwork ==
  [][\A n \in Networks :
      /\ (paused[n] /\ paused'[n]) => running'[n] \subseteq running[n]
      /\ (/\ paused[n] /\ Len(calls') = Len(calls) + 1
          /\ validateTransaction(calls'[Len(calls')]) = <<>>
          /\ calls'[Len(calls')].network = n) =>
           LET k == Len(calls') IN
           /\ \E i \in 1..Len(queue'[n]) : queue'[n][i].id = k
           /\ pendingTransactions'[k].status = "pending"
           /\ promise'[k] = "unsettled"
      /\ paused'[n] # paused[n] =>
           /\ \A m \in Networks \ {n} :
                /\ queue'[m] = queue[m] /\ running'[m] = running[m]
                /\ paused'[m] = paused[m] /\ intervalCount'[m] = intervalCount[m]
           /\ UNCHANGED <<pendingTransactions, promise, events>>
      /\ (~paused'[n] /\ queue'[n] # <<>>) =>
           (running'[n] # {} \/ intervalCount'[n] >= IntervalCap)
      /\ (/\ paused[n] /\ ~paused'[n] /\ queue[n] # <<>>
          /\ running[n] = {} /\ intervalCount[n] < IntervalCap) =>
           /\ running'[n] = {Head(queue[n]).id}
           /\ queue'[n] = Tail(queue[n])
           /\ \A i \in 1..Len(queue'[n]) : ClaimedBefore(Head(queue[n]).id, queue'[n][i].id)]_vars

\* solana was paused with two transactions waiting and has been resumed:
\* the later one, of priority 1, runs and the earlier one still waits, while
\* a transaction on ethereum completed in the meantime
C19_Witness ==
  /\ ~paused["solana"]
  /\ \E k \in running["solana"] :
       /\ calls[k].priority = {1}
       /\ Len(queue["solana"]) = 1 /\ queue["solana"][1].id < k
       /\ calls[queue["solana"][1].id].priority = {}
       /\ intervalCount["solana"] = 1
  /\ \E j \in 1..Len(calls) : calls[j].network = "ethereum" /\ promise[j] = "resolved"

\* C20 (as claimed): encrypt(null) and decrypt(null) return null, and
\* encrypt and decrypt throw the configuration error when the key is
\* absent, both for every input
C20_NullAndKeyRulesAgree ==
  /\ cipherPc = "encrypted" =>
       /\ plainIn = NullV => encOut = ReturnedCt(NullCt)
       /\ encKey = "" => encOut = ThrownCt(MsgNoKey)
  /\ cipherPc = "foreign" =>
       /\ cipherText = NullCt => decOut = Returned(NullV)
       /\ encKey = "" => decOut = Thrown(MsgNoKey)

\* C20 (amended): with the key absent encrypt and decrypt throw the
\* configuration error for every input, null included; with the key
\* configured encrypt(null) and decrypt(null) return null
C20_KeyCheckBeforeNull ==
  /\ cipherPc = "encrypted" =>
       /\ encKey = "" => encOut = ThrownCt(MsgNoKey)
       /\ (encKey # "" /\ plainIn = NullV) => encOut = ReturnedCt(NullCt)
  /\ cipherPc = "foreign" =>
       /\ encKey = "" => decOut = Thrown(MsgNoKey)
       /\ (encKey # "" /\ cipherText = NullCt) => decOut = Returned(NullV)

\* encrypt(null) with the key absent
C20_Witness ==
  cipherPc = "encrypted" /\ encKey = "" /\ plainIn = NullV /\ encOut = ThrownCt(MsgNoKey)

====
